---- MODULE Spec2Model ----
(***************************************************************************)
(* Verification model of the coin-ai decision / simulation core:           *)
(*   - OrderPlanner.planOrder          (src/src/planner/OrderPlanner.ts)   *)
(*   - GuardrailEngine                 (src/unnamed/part_003)              *)
(*   - BacktestSimulator.runRange      (src/src/backtest/...Simulator.ts)  *)
(*   - calculatePnl                    (src/src/trading/TradingCore.ts)    *)
(*                                                                         *)
(* JavaScript numbers are modelled as exact rationals extended with the    *)
(* IEEE specials NaN, +Infinity, -Infinity and with `undefined`, so that   *)
(* the comparisons the code relies on (NaN <= 0 is false, x ?? y keeps a   *)
(* NaN, Math.max(0, NaN) is NaN) behave as they do at run time.            *)
(***************************************************************************)
EXTENDS Integers, Naturals, Sequences, FiniteSets, TLC

----------------------------------------------------------------------------
(* JavaScript number model                                                 *)

RECURSIVE Gcd(_, _)
Gcd(a, b) == IF b = 0 THEN a ELSE Gcd(b, a % b)

Abs(x) == IF x < 0 THEN -x ELSE x

\* Math.max and Math.min of two integers
Max2(a, b) == IF a > b THEN a ELSE b
Min2(a, b) == IF a < b THEN a ELSE b

\* a finite number n/d in lowest terms, d > 0
Rat(n, d) ==
  LET s == IF d < 0 THEN -1 ELSE 1
      g == Gcd(Abs(n), Abs(d))
  IN  [k |-> "fin", n |-> (s * n) \div g, d |-> (s * d) \div g]

Int2Num(n) == [k |-> "fin", n |-> n, d |-> 1]
NaN == [k |-> "nan", n |-> 0, d |-> 1]
PInf == [k |-> "pinf", n |-> 0, d |-> 1]
NInf == [k |-> "ninf", n |-> 0, d |-> 1]
Undef == [k |-> "undef", n |-> 0, d |-> 1]
Zero == Int2Num(0)
One == Int2Num(1)

\* Number.isFinite(v)
IsFinite(a) == a.k = "fin"

\* sign of a number that is not NaN: -1, 0, 1
Sgn(a) ==
  CASE a.k = "pinf" -> 1
    [] a.k = "ninf" -> -1
    [] OTHER -> IF a.n > 0 THEN 1 ELSE IF a.n < 0 THEN -1 ELSE 0

\* `undefined` converts to NaN in arithmetic and comparisons
ToNum(a) == IF a.k = "undef" THEN NaN ELSE a

Lcm(a, b) == (a \div Gcd(a, b)) * b

NNeg(a0) ==
  LET a == ToNum(a0)
  IN  CASE a.k = "nan" -> NaN
        [] a.k = "pinf" -> NInf
        [] a.k = "ninf" -> PInf
        [] OTHER -> [k |-> "fin", n |-> -a.n, d |-> a.d]

\* a + b
NAdd(a0, b0) ==
  LET a == ToNum(a0)
      b == ToNum(b0)
  IN  CASE a.k = "nan" \/ b.k = "nan" -> NaN
        [] a.k = "fin" /\ b.k = "fin" ->
             LET l == Lcm(a.d, b.d)
             IN  Rat(a.n * (l \div a.d) + b.n * (l \div b.d), l)
        [] a.k = "fin" -> b
        [] b.k = "fin" -> a
        [] OTHER -> IF a.k = b.k THEN a ELSE NaN

\* a - b
NSub(a, b) == NAdd(a, NNeg(b))

\* a * b
NMul(a0, b0) ==
  LET a == ToNum(a0)
      b == ToNum(b0)
  IN  CASE a.k = "nan" \/ b.k = "nan" -> NaN
        [] a.k = "fin" /\ b.k = "fin" ->
             LET g1 == Gcd(Abs(a.n), b.d)
                 g2 == Gcd(Abs(b.n), a.d)
             IN  Rat((a.n \div g1) * (b.n \div g2), (a.d \div g2) * (b.d \div g1))
        [] OTHER ->
             LET s == Sgn(a) * Sgn(b)
             IN  IF s = 0 THEN NaN ELSE IF s > 0 THEN PInf ELSE NInf

\* a / b (a signed zero is not distinguished: x / 0 is +-Infinity by the
\* sign of x, 0 / 0 is NaN)
NDiv(a0, b0) ==
  LET a == ToNum(a0)
      b == ToNum(b0)
  IN  CASE a.k = "nan" \/ b.k = "nan" -> NaN
        [] a.k = "fin" /\ b.k = "fin" ->
             IF b.n = 0
             THEN IF a.n = 0 THEN NaN ELSE IF a.n > 0 THEN PInf ELSE NInf
             ELSE NMul(a, Rat(b.d, b.n))
        [] a.k = "fin" -> Zero
        [] b.k = "fin" ->
             IF Sgn(a) * (IF b.n < 0 THEN -1 ELSE 1) > 0 THEN PInf ELSE NInf
        [] OTHER -> NaN

\* a/b < c/d for a, c >= 0 and b, d > 0, by comparing the integer parts and
\* then the inverted remainders (no product is formed)
RECURSIVE FracLt(_, _, _, _)
FracLt(a, b, c, d) ==
  IF a \div b # c \div d THEN a \div b < c \div d
  ELSE IF c % d = 0 THEN FALSE
  ELSE IF a % b = 0 THEN TRUE
  ELSE FracLt(d, c % d, b, a % b)

\* a < b (false as soon as one side is NaN)
NLt(a0, b0) ==
  LET a == ToNum(a0)
      b == ToNum(b0)
  IN  CASE a.k = "nan" \/ b.k = "nan" -> FALSE
        [] a.k = "fin" /\ b.k = "fin" ->
             IF a.n < 0 /\ b.n >= 0 THEN TRUE
             ELSE IF a.n >= 0 /\ b.n < 0 THEN FALSE
             ELSE IF a.n >= 0 THEN FracLt(a.n, a.d, b.n, b.d)
             ELSE FracLt(-b.n, b.d, -a.n, a.d)
        [] a.k = "ninf" -> b.k # "ninf"
        [] a.k = "pinf" -> FALSE
        [] OTHER -> b.k = "pinf"

\* a === b on numbers
NEq(a0, b0) ==
  LET a == ToNum(a0)
      b == ToNum(b0)
  IN  a.k # "nan" /\ b.k # "nan" /\ a = b

\* a <= b, a > b, a >= b
NLe(a, b) == NLt(a, b) \/ NEq(a, b)
NGt(a, b) == NLt(b, a)
NGe(a, b) == NLe(b, a)

\* Math.min(a, b), Math.max(a, b): NaN when an argument is NaN
NMin(a0, b0) ==
  LET a == ToNum(a0)
      b == ToNum(b0)
  IN  IF a.k = "nan" \/ b.k = "nan" THEN NaN ELSE IF NLt(b, a) THEN b ELSE a

NMax(a0, b0) ==
  LET a == ToNum(a0)
      b == ToNum(b0)
  IN  IF a.k = "nan" \/ b.k = "nan" THEN NaN ELSE IF NLt(a, b) THEN b ELSE a

\* a ?? b : only undefined (or null) is replaced, a NaN is kept
Coalesce(a, b) == IF a.k = "undef" THEN b ELSE a

\* truthiness of a number: undefined, NaN and 0 are falsy
Truthy(a) == a.k \in {"pinf", "ninf"} \/ (a.k = "fin" /\ a.n # 0)

----------------------------------------------------------------------------
(* OrderPlanner (src/src/planner/OrderPlanner.ts)                          *)

\* GLOBAL_CONFIG.feeRate = 0.0005
feeRate == Rat(1, 2000)

\* number of decimals kept by roundQty
QtyDecimals == 8

RECURSIVE Pow10(_)
Pow10(k) == IF k = 0 THEN 1 ELSE 10 * Pow10(k - 1)

\* k further decimal digits of r/d (0 <= r < d): <<digits as an integer, remainder>>
RECURSIVE FracDigits(_, _, _, _)
FracDigits(acc, r, d, k) ==
  IF k = 0 THEN <<acc, r>>
  ELSE FracDigits(acc * 10 + ((r * 10) \div d), (r * 10) % d, d, k - 1)

\* q.toFixed(digits) read back as a number: q rounded half away from zero to
\* `digits` decimals; NaN and the infinities come back unchanged
ToFixedNum(q0, digits) ==
  LET q == ToNum(q0)
  IN  IF q.k # "fin" THEN q
      ELSE LET an == Abs(q.n)
               ip == an \div q.d
               fr == FracDigits(0, an % q.d, q.d, digits)
               up == IF 2 * fr[2] >= q.d THEN 1 ELSE 0
               f  == fr[1] + up
               mag == NAdd(Int2Num(ip), Rat(f, Pow10(digits)))
           IN  IF q.n < 0 THEN NNeg(mag) ELSE mag

roundQty(q) == ToFixedNum(q, QtyDecimals)

\* positiveNum(v): v when it is a finite number > 0, otherwise undefined
positiveNum(v) ==
  LET n == ToNum(v)
  IN  IF IsFinite(n) /\ NGt(n, Zero) THEN n ELSE Undef

clamp_noCeiling(v, lo, hi) == NMax(lo, v)

clamp(v, lo, hi) == NMin(hi, NMax(lo, v))

\* exposure of the symbol's current position; pos is the position's quantity,
\* Undef when the portfolio holds no position of the symbol
calcSymbolExposure(posQty, price) ==
  IF posQty.k = "undef" THEN Zero ELSE NMul(posQty, price)

calcTotalExposure(portfolio) ==
  NMax(Zero, NSub(portfolio.totalEquityKrw, portfolio.cashKrw))

calcStopLoss(decision, entryPrice, slRatio) ==
  LET raw == positiveNum(decision.stopLoss)
      fallback == NMul(entryPrice, slRatio)
  IN  IF Truthy(raw) /\ decision.side = "LONG" /\ NLt(raw, entryPrice) THEN raw
      ELSE IF Truthy(raw) /\ decision.side = "SHORT" /\ NGt(raw, entryPrice) THEN raw
      ELSE IF decision.side = "LONG" THEN NSub(entryPrice, fallback)
      ELSE NAdd(entryPrice, fallback)

\* calcPerUnitRisk without the fees of the two legs
calcPerUnitRisk_noFees(side, entryPrice, stopLoss) ==
  IF side = "LONG" THEN NSub(entryPrice, stopLoss) ELSE NSub(stopLoss, entryPrice)

\* per-unit risk in currency, round-trip fees included
calcPerUnitRisk(side, entryPrice, stopLoss) ==
  IF side = "LONG"
  THEN NSub(NMul(entryPrice, NAdd(One, feeRate)), NMul(stopLoss, NSub(One, feeRate)))
  ELSE NSub(NMul(stopLoss, NAdd(One, feeRate)), NMul(entryPrice, NSub(One, feeRate)))

\* TRUE when the reward after fees is non-positive (the plan is rejected)
checkRewardAfterFees(side, entryPrice, targetPrice) ==
  IF side = "LONG"
  THEN NLe(NSub(NMul(targetPrice, NSub(One, feeRate)),
                NMul(entryPrice, NAdd(One, feeRate))), Zero)
  ELSE NLe(NSub(NMul(entryPrice, NSub(One, feeRate)),
                NMul(targetPrice, NAdd(One, feeRate))), Zero)

reject(reason) ==
  [shouldExecute |-> FALSE, side |-> "none", quantity |-> Undef,
   entryPrice |-> Undef, stopLoss |-> Undef, targetPrice |-> Undef,
   notionalKrw |-> Undef, reason |-> reason,
   appliedRiskPct |-> Undef, riskAmountKrw |-> Undef,
   symbolExposureBefore |-> Undef, totalExposureBefore |-> Undef]

\* calcMaxAllowed without the total-exposure limit
calcMaxAllowed_noTotal(risk, portfolio, symbolExposureBefore, totalExposureBefore) ==
  LET maxSymbolExposure == NMul(portfolio.totalEquityKrw, risk.maxPositionPctPerSymbol)
      remainingSymbol == NMax(Zero, NSub(maxSymbolExposure, symbolExposureBefore))
  IN  NMin(NMin(remainingSymbol, risk.maxNotionalKrw), portfolio.cashKrw)

\* the notional the account can still take: lines 122-129
calcMaxAllowed(risk, portfolio, symbolExposureBefore, totalExposureBefore) ==
  LET maxSymbolExposure == NMul(portfolio.totalEquityKrw, risk.maxPositionPctPerSymbol)
      maxTotalExposure == NMul(portfolio.totalEquityKrw, risk.maxTotalExposurePct)
      remainingSymbol == NMax(Zero, NSub(maxSymbolExposure, symbolExposureBefore))
      remainingTotal == NMax(Zero, NSub(maxTotalExposure, totalExposureBefore))
  IN  NMin(NMin(NMin(remainingSymbol, remainingTotal), risk.maxNotionalKrw),
           portfolio.cashKrw)

\* the risk amount without the floor
riskAmountOf_raw(rawRiskAmountKrw, minNotionalKrw) == rawRiskAmountKrw

\* lines 88-89: the risk amount is raised to the minimum order amount
riskAmountOf(rawRiskAmountKrw, minNotionalKrw) == NMax(rawRiskAmountKrw, minNotionalKrw)

\* planOrder({decision, marketData.price, portfolio, riskScale, customSlTp})
\* with policy `risk`; customSlTp is [present, sl, tp]. The daily-loss test of
\* lines 66-68 is commented out in the source and so is not part of the code.
planOrder(risk, decision, price, portfolio, riskScale, customSlTp) ==
  IF ~decision.shouldTrade \/ decision.side = "none"
  THEN reject("Agent decided not to trade")
  ELSE
  LET symbolExposureBefore == calcSymbolExposure(portfolio.posQty, price)
      totalExposureBefore == calcTotalExposure(portfolio)
      confidenceFactor == clamp(NDiv(Coalesce(decision.confidence, Zero), Int2Num(100)), Zero, One)
  IN
  IF NLe(confidenceFactor, Zero) THEN reject("Confidence too low")
  ELSE
  LET appliedRiskPct == NMul(NMul(risk.riskPerTradePct, confidenceFactor), riskScale)
      rawRiskAmountKrw == NMul(portfolio.totalEquityKrw, appliedRiskPct)
      riskAmountKrw == riskAmountOf(rawRiskAmountKrw, risk.minNotionalKrw)
      entryPrice == positiveNum(Coalesce(decision.entryPrice, price))
  IN
  IF ~Truthy(entryPrice) THEN reject("Invalid entry price")
  ELSE
  LET slRatio == IF customSlTp.present THEN customSlTp.sl ELSE risk.fallbackStopLossPct
      stopLoss == calcStopLoss(decision, entryPrice, slRatio)
      perUnitRisk == calcPerUnitRisk(decision.side, entryPrice, stopLoss)
  IN
  IF NLe(perUnitRisk, Zero)
  THEN reject("Invalid stopLoss/entryPrice combination (after fees)")
  ELSE
  LET quantityByRisk == NDiv(riskAmountKrw, perUnitRisk)
  IN
  IF ~IsFinite(quantityByRisk) \/ NLe(quantityByRisk, Zero)
  THEN reject("Computed quantity is invalid")
  ELSE
  LET desiredNotionalKrw == NMul(quantityByRisk, entryPrice)
      maxAllowed == calcMaxAllowed(risk, portfolio, symbolExposureBefore, totalExposureBefore)
  IN
  IF NLe(maxAllowed, Zero) THEN reject("No capacity for additional exposure")
  ELSE
  LET finalNotionalKrw == NMin(desiredNotionalKrw, maxAllowed)
  IN
  IF NLt(finalNotionalKrw, risk.minNotionalKrw) THEN reject("Final notional below minimum")
  ELSE
  LET quantity == roundQty(NDiv(finalNotionalKrw, entryPrice))
  IN
  IF ~IsFinite(quantity) \/ NLe(quantity, Zero)
  THEN reject("Final quantity invalid after rounding")
  ELSE
  LET tpRatio == IF customSlTp.present THEN customSlTp.tp
                 ELSE NMul(risk.fallbackStopLossPct, Int2Num(2))
      targetPrice == Coalesce(decision.targetPrice,
                       IF decision.side = "LONG"
                       THEN NMul(entryPrice, NAdd(One, tpRatio))
                       ELSE NMul(entryPrice, NSub(One, tpRatio)))
  IN
  IF checkRewardAfterFees(decision.side, entryPrice, targetPrice)
  THEN reject("Reward after fees is non-positive")
  ELSE
  [shouldExecute |-> TRUE, side |-> decision.side, quantity |-> quantity,
   entryPrice |-> entryPrice, stopLoss |-> stopLoss, targetPrice |-> targetPrice,
   notionalKrw |-> finalNotionalKrw, reason |-> "Planned by OrderPlanner",
   appliedRiskPct |-> appliedRiskPct, riskAmountKrw |-> riskAmountKrw,
   symbolExposureBefore |-> symbolExposureBefore,
   totalExposureBefore |-> totalExposureBefore]

----------------------------------------------------------------------------
(* GuardrailEngine (src/unnamed/part_003)                                  *)
(*                                                                         *)
(* Units: times are milliseconds counted from a reference UTC midnight;    *)
(* R-multiples, percentages, feeInR, stopPct and spreadPct are in          *)
(* hundredths (0.15 is 15, 1.5 is 150); KRW amounts of the order book and  *)
(* of the 24h volume are in millions of KRW.                               *)

HourMs == 3600000
DayMs == 24 * HourMs
MinuteMs == 60000

\* const kstOffset = 9 * 60 * 60 * 1000
kstOffset == 9 * HourMs

\* the settings check() reads from the environment; the defaults of the source
dailyMaxLossR == 300
dailyMaxLossPct == 150
cooldownMinutes == 120
maxFeeInR == 15
minStopPct == 50
maxSpreadPct == 8
minTopBookKrw == 20
minVol24hKrw == 30000

\* MAX_CONSECUTIVE_SL and MAX_TRADES_PER_DAY as set in the environment of the
\* modelled run (the source defaults are 4 and 10)
maxConsecutiveSL == 2
maxTradesPerDay == 3

\* getTodayKey without the KST offset: the UTC calendar day
getTodayKey_utc(now) == now \div DayMs

\* getTodayKey(): the KST calendar day of the wall clock; the ISO date string
\* is represented by the number of that day
getTodayKey(now) == (now + kstOffset) \div DayMs

createFreshState(now) ==
  [dayKey |-> getTodayKey(now), dailyRealizedR |-> 0, dailyRealizedPct |-> 0,
   tradesToday |-> 0, consecutiveSL |-> 0, cooldownUntilMs |-> 0]

\* ensureDayReset(): the state after it, given the state before and the clock
ensureDayReset(st, now) ==
  IF st.dayKey # getTodayKey(now) THEN createFreshState(now) ELSE st

\* an optional context field
Absent == [has |-> FALSE, v |-> 0]
Present(x) == [has |-> TRUE, v |-> x]

\* the conditions of check(), each TRUE when it denies
cooldownActive(st, ctx) == st.cooldownUntilMs > ctx.nowMs
dailyRHit(st) == st.dailyRealizedR <= -dailyMaxLossR
dailyPctHit(st) == st.dailyRealizedPct <= -dailyMaxLossPct
maxTradesHit(st) == st.tradesToday >= maxTradesPerDay
staleCandles(ctx) == ctx.nowMs - ctx.lastCandleTs > ctx.tfMinutes * 2 * MinuteMs
feeTooHigh(ctx) == ctx.feeInR > maxFeeInR
stopTooTight(ctx) == ctx.stopPct < minStopPct
spreadTooWide(ctx) == ctx.spreadPct.has /\ ctx.spreadPct.v > maxSpreadPct
shallowBook(ctx) == ctx.topBookKrw.has /\ ctx.topBookKrw.v < minTopBookKrw
lowVolume(ctx) == ctx.volume24hKrw.has /\ ctx.volume24hKrw.v < minVol24hKrw
\* the streak test firing one stop-loss late
consecutiveSLHit_late(st) == st.consecutiveSL > maxConsecutiveSL
consecutiveSLHit(st) == st.consecutiveSL >= maxConsecutiveSL

\* check() with the streak tested before the market-quality conditions
checkDecision_streakFirst(st, ctx) ==
  IF cooldownActive(st, ctx) THEN "COOLDOWN"
  ELSE IF dailyRHit(st) THEN "DAILY_LOSS_R"
  ELSE IF dailyPctHit(st) THEN "DAILY_LOSS_PCT"
  ELSE IF maxTradesHit(st) THEN "MAX_TRADES"
  ELSE IF consecutiveSLHit(st) THEN "CONSECUTIVE_SL"
  ELSE IF staleCandles(ctx) THEN "STALE_CANDLES"
  ELSE IF feeTooHigh(ctx) THEN "FEE_IN_R"
  ELSE IF stopTooTight(ctx) THEN "STOP_TOO_TIGHT"
  ELSE IF spreadTooWide(ctx) THEN "SPREAD_TOO_WIDE"
  ELSE IF shallowBook(ctx) THEN "SHALLOW_ORDERBOOK"
  ELSE IF lowVolume(ctx) THEN "LOW_24H_VOLUME"
  ELSE "ALLOW"

\* the decision of check() on the state left by ensureDayReset: "ALLOW" or
\* the kind of the denial (the reason strings of the source carry in
\* addition the formatted figure)
checkDecision(st, ctx) ==
  IF cooldownActive(st, ctx) THEN "COOLDOWN"
  ELSE IF dailyRHit(st) THEN "DAILY_LOSS_R"
  ELSE IF dailyPctHit(st) THEN "DAILY_LOSS_PCT"
  ELSE IF maxTradesHit(st) THEN "MAX_TRADES"
  ELSE IF staleCandles(ctx) THEN "STALE_CANDLES"
  ELSE IF feeTooHigh(ctx) THEN "FEE_IN_R"
  ELSE IF stopTooTight(ctx) THEN "STOP_TOO_TIGHT"
  ELSE IF spreadTooWide(ctx) THEN "SPREAD_TOO_WIDE"
  ELSE IF shallowBook(ctx) THEN "SHALLOW_ORDERBOOK"
  ELSE IF lowVolume(ctx) THEN "LOW_24H_VOLUME"
  ELSE IF consecutiveSLHit(st) THEN "CONSECUTIVE_SL"
  ELSE "ALLOW"

\* check() clearing the streak when it arms the cooldown
checkState_clearStreak(st, ctx) ==
  IF checkDecision(st, ctx) = "CONSECUTIVE_SL"
  THEN [st EXCEPT !.cooldownUntilMs = ctx.nowMs + cooldownMinutes * MinuteMs,
                  !.consecutiveSL = 0]
  ELSE st

\* the state check() leaves: the cooldown is armed on the streak denial
checkState(st, ctx) ==
  IF checkDecision(st, ctx) = "CONSECUTIVE_SL"
  THEN [st EXCEPT !.cooldownUntilMs = ctx.nowMs + cooldownMinutes * MinuteMs]
  ELSE st

\* a counter that every exit other than a stop-loss resets
nextConsecutiveSL_resetOnAny(c, exitReason) ==
  IF exitReason = "STOP_LOSS" THEN c + 1 ELSE 0

\* the consecutive-stop-loss counter after a close
nextConsecutiveSL(c, exitReason) ==
  IF exitReason = "STOP_LOSS" THEN c + 1
  ELSE IF exitReason = "TAKE_PROFIT" THEN 0
  ELSE c

\* onTradeClosed(trade) on the state left by ensureDayReset
applyTradeClosed(st, trade) ==
  [st EXCEPT !.dailyRealizedR = @ + trade.r,
             !.dailyRealizedPct = @ + trade.pnlPct,
             !.tradesToday = @ + 1,
             !.consecutiveSL = nextConsecutiveSL(@, trade.exitReason)]

----------------------------------------------------------------------------
(* Symbol configuration (config/config, in src/src/models/upbit/order.model.ts) *)

\* BASE_SYMBOL_CONFIG.stopLossPct, takeProfitPct and riskScale: the symbol of
\* the simulated run has no override
symStopLossPct == Rat(2, 100)
symTakeProfitPct == Rat(4, 100)
getRiskScaleForSymbol == One

\* getVolatilityBasedSlTp(symbol, volatilityPct) for a defined volatilityPct
getVolatilityBasedSlTp(volatilityPct) ==
  LET volPercent == NMul(volatilityPct, Int2Num(100))
  IN  IF NLt(volPercent, Int2Num(2))
      THEN [present |-> TRUE,
            sl |-> NMax(NMul(symStopLossPct, Rat(8, 10)), Rat(12, 1000)),
            tp |-> NMax(NMul(symTakeProfitPct, Rat(8, 10)), Rat(24, 1000))]
      ELSE IF NLt(volPercent, Int2Num(6))
      THEN [present |-> TRUE, sl |-> symStopLossPct, tp |-> symTakeProfitPct]
      ELSE [present |-> TRUE,
            sl |-> NMax(NMul(symStopLossPct, Rat(13, 10)), Rat(35, 1000)),
            tp |-> NMax(NMul(symTakeProfitPct, Rat(13, 10)), Rat(7, 100))]

----------------------------------------------------------------------------
(* calculatePnl (src/src/trading/TradingCore.ts)                           *)

\* calculatePnl charging the entry fee only
calculatePnl_noExitFee(side, entryPrice, quantity, exitPrice, fee) ==
  LET grossEntry == NMul(entryPrice, quantity)
      grossExit == NMul(exitPrice, quantity)
      entryFee == NMul(grossEntry, fee)
      pnl == IF side = "LONG"
             THEN NSub(grossExit, NAdd(grossEntry, entryFee))
             ELSE NSub(NMul(grossEntry, NSub(One, fee)), grossExit)
      invested == NAdd(grossEntry, entryFee)
  IN  [pnl |-> pnl,
       pnlPercent |-> IF NGt(invested, Zero)
                      THEN NMul(NDiv(pnl, invested), Int2Num(100)) ELSE Zero]

\* calculatePnl(position, exitPrice, feeRate): [pnl, pnlPercent]
calculatePnl(side, entryPrice, quantity, exitPrice, fee) ==
  LET grossEntry == NMul(entryPrice, quantity)
      grossExit == NMul(exitPrice, quantity)
      entryFee == NMul(grossEntry, fee)
      exitFee == NMul(grossExit, fee)
      pnl == IF side = "LONG"
             THEN NSub(NSub(grossExit, exitFee), NAdd(grossEntry, entryFee))
             ELSE NSub(NMul(grossEntry, NSub(One, fee)), NMul(grossExit, NAdd(One, fee)))
      invested == NAdd(grossEntry, entryFee)
  IN  [pnl |-> pnl,
       pnlPercent |-> IF NGt(invested, Zero)
                      THEN NMul(NDiv(pnl, invested), Int2Num(100)) ELSE Zero]

----------------------------------------------------------------------------
(* BacktestSimulator (src/src/backtest/BacktestSimulator.ts)               *)

\* const start = Math.max(startIdx, 250)
WarmupBars == 250

\* this.config.beTriggerR ?? 0.25, signalExitMinHoldBars ?? 2
defaultBeTriggerR == Rat(1, 4)
defaultMinHoldBars == 2

\* the optional settings of BacktestConfig with their defaults; an unset
\* boolean is "unset", an unset number is undefined
cfgBeTriggerR(cfg) == Coalesce(cfg.beTriggerR, defaultBeTriggerR)
cfgGateOnSignal(cfg) == IF cfg.gateOnSignal = "unset" THEN FALSE ELSE cfg.gateOnSignal = "true"
cfgMinHoldBars(cfg) == Coalesce(cfg.signalExitMinHoldBars, Int2Num(defaultMinHoldBars))
\* signalExitAfterBeOnly read without its default
cfgAfterBeOnly_defaultOff(cfg) == cfg.signalExitAfterBeOnly = "true"

cfgAfterBeOnly(cfg) ==
  IF cfg.signalExitAfterBeOnly = "unset" THEN TRUE ELSE cfg.signalExitAfterBeOnly = "true"

NoPosition ==
  [open |-> FALSE, side |-> "none", entryPrice |-> Undef, quantity |-> Undef,
   entryIndex |-> 0, stopLoss |-> Undef, targetPrice |-> Undef,
   initialStopLoss |-> Undef]

\* the simulator's fields after construction; arrays identifies the objects
\* that this.trades, this.equityCurve and this.debugStats refer to, by the
\* number of resets that have replaced them; exitCalls is not a field: it
\* logs the bar and the position handed to the exit provider at each of its
\* calls during the run
resetSim(cfg) ==
  [position |-> NoPosition, cashKrw |-> cfg.initialCapitalKrw, trades |-> <<>>,
   equityCurve |-> <<>>, peakEquity |-> cfg.initialCapitalKrw, maxDrawdown |-> Zero,
   realizedPnlToday |-> Zero, signalCount |-> 0,
   debugStats |-> [noSignal |-> 0, agentSkip |-> 0, plannerReject |-> 0, executed |-> 0],
   arrays |-> 0, exitCalls |-> <<>>]

\* reset() leaving the cash of the previous run in place
reset_keepCash(sm, cfg) ==
  [resetSim(cfg) EXCEPT !.cashKrw = sm.cashKrw, !.arrays = sm.arrays + 1]

\* reset(): every field is assigned, the arrays and the counters object are
\* new objects
reset(sm, cfg) ==
  [sm EXCEPT !.position = NoPosition,
             !.cashKrw = cfg.initialCapitalKrw,
             !.trades = <<>>,
             !.equityCurve = <<>>,
             !.peakEquity = cfg.initialCapitalKrw,
             !.maxDrawdown = Zero,
             !.realizedPnlToday = Zero,
             !.signalCount = 0,
             !.debugStats = [noSignal |-> 0, agentSkip |-> 0, plannerReject |-> 0,
                             executed |-> 0],
             !.arrays = @ + 1,
             !.exitCalls = <<>>]

updateEquity(sm, price) ==
  LET positionValue == IF sm.position.open THEN NMul(sm.position.quantity, price) ELSE Zero
      equity == NAdd(sm.cashKrw, positionValue)
      peak == IF NGt(equity, sm.peakEquity) THEN equity ELSE sm.peakEquity
      dd == NDiv(NSub(peak, equity), peak)
  IN  [sm EXCEPT !.equityCurve = Append(@, equity),
                 !.peakEquity = peak,
                 !.maxDrawdown = IF NGt(dd, @) THEN dd ELSE @]

\* a break-even test that falls back to the initial stop whenever the price
\* is below the trigger
armBreakEven_recompute(pos, price, beTriggerR) ==
  LET sl0 == Coalesce(pos.initialStopLoss, pos.stopLoss)
      R == NSub(pos.entryPrice, sl0)
      beTrigger == NAdd(pos.entryPrice, NMul(beTriggerR, R))
  IN  IF NGe(price, beTrigger) THEN NMax(pos.stopLoss, pos.entryPrice) ELSE sl0

\* the position's stop after the break-even test of a bar (lines 128-140)
armBreakEven(pos, price, beTriggerR) ==
  LET sl0 == Coalesce(pos.initialStopLoss, pos.stopLoss)
      R == NSub(pos.entryPrice, sl0)
      beTrigger == NAdd(pos.entryPrice, NMul(beTriggerR, R))
  IN  IF /\ Truthy(sl0) /\ Truthy(pos.stopLoss) /\ NLt(pos.stopLoss, pos.entryPrice)
         /\ NGt(R, Zero) /\ NGe(price, beTrigger)
      THEN NMax(pos.stopLoss, pos.entryPrice)
      ELSE pos.stopLoss

\* beArmed at the end of lines 128-143, given the stop armBreakEven left
beArmedAfter(pos, newStop) ==
  newStop # pos.stopLoss \/ (Truthy(newStop) /\ NGe(newStop, pos.entryPrice))

\* closePosition logging the bar after the close as the exit bar
closePosition_nextBar(sm, cfg, index, exitPrice, reason) ==
  IF ~sm.position.open THEN sm
  ELSE
  LET fee == cfg.feeRate
      pos == sm.position
      grossProceeds == NMul(pos.quantity, exitPrice)
      netProceeds == NSub(grossProceeds, NMul(grossProceeds, fee))
      pnl == NSub(NMul(NSub(exitPrice, pos.entryPrice), pos.quantity),
                  NMul(fee, NMul(pos.quantity, NAdd(pos.entryPrice, exitPrice))))
  IN  [sm EXCEPT !.cashKrw = NAdd(@, netProceeds),
                 !.realizedPnlToday = NAdd(@, NDiv(pnl, cfg.initialCapitalKrw)),
                 !.trades = Append(@, [entryIndex |-> pos.entryIndex, exitIndex |-> index + 1,
                                       side |-> pos.side, entryPrice |-> pos.entryPrice,
                                       exitPrice |-> exitPrice, quantity |-> pos.quantity,
                                       pnl |-> pnl,
                                       pnlPercent |-> NMul(NDiv(pnl, cfg.initialCapitalKrw),
                                                           Int2Num(100)),
                                       exitReason |-> reason]),
                 !.position = NoPosition]

closePosition(sm, cfg, index, exitPrice, reason) ==
  IF ~sm.position.open THEN sm
  ELSE
  LET fee == cfg.feeRate
      pos == sm.position
      grossProceeds == NMul(pos.quantity, exitPrice)
      feeCost == NMul(grossProceeds, fee)
      netProceeds == NSub(grossProceeds, feeCost)
      entryFee == NMul(NMul(pos.quantity, pos.entryPrice), fee)
      exitFee == NMul(NMul(pos.quantity, exitPrice), fee)
      pnl == NSub(NMul(NSub(exitPrice, pos.entryPrice), pos.quantity), NAdd(entryFee, exitFee))
      pnlPercent == NMul(NDiv(pnl, cfg.initialCapitalKrw), Int2Num(100))
  IN  [sm EXCEPT !.cashKrw = NAdd(@, netProceeds),
                 !.realizedPnlToday = NAdd(@, NDiv(pnl, cfg.initialCapitalKrw)),
                 !.trades = Append(@, [entryIndex |-> pos.entryIndex, exitIndex |-> index,
                                       side |-> pos.side, entryPrice |-> pos.entryPrice,
                                       exitPrice |-> exitPrice, quantity |-> pos.quantity,
                                       pnl |-> pnl, pnlPercent |-> pnlPercent,
                                       exitReason |-> reason]),
                 !.position = NoPosition]

\* openPosition debiting the notional without the entry fee
openPosition_noFee(sm, cfg, index, pl) ==
  IF ~Truthy(pl.quantity) \/ pl.side = "none" \/ ~Truthy(pl.entryPrice) THEN sm
  ELSE
  LET grossCost == NMul(pl.quantity, pl.entryPrice)
  IN  IF NGt(grossCost, sm.cashKrw) THEN sm
      ELSE [sm EXCEPT !.cashKrw = NSub(@, grossCost),
                      !.position = [open |-> TRUE, side |-> pl.side,
                                    entryPrice |-> pl.entryPrice, quantity |-> pl.quantity,
                                    entryIndex |-> index, stopLoss |-> pl.stopLoss,
                                    targetPrice |-> pl.targetPrice,
                                    initialStopLoss |-> pl.stopLoss]]

\* openPosition without the test of the cash
openPosition_noCashTest(sm, cfg, index, pl) ==
  IF ~Truthy(pl.quantity) \/ pl.side = "none" \/ ~Truthy(pl.entryPrice) THEN sm
  ELSE
  LET totalCost == NMul(NMul(pl.quantity, pl.entryPrice), NAdd(One, cfg.feeRate))
  IN  [sm EXCEPT !.cashKrw = NSub(@, totalCost),
                 !.position = [open |-> TRUE, side |-> pl.side,
                               entryPrice |-> pl.entryPrice, quantity |-> pl.quantity,
                               entryIndex |-> index, stopLoss |-> pl.stopLoss,
                               targetPrice |-> pl.targetPrice,
                               initialStopLoss |-> pl.stopLoss]]

openPosition(sm, cfg, index, pl) ==
  IF ~Truthy(pl.quantity) \/ pl.side = "none" \/ ~Truthy(pl.entryPrice) THEN sm
  ELSE
  LET grossCost == NMul(pl.quantity, pl.entryPrice)
      feeCost == NMul(grossCost, cfg.feeRate)
      totalCost == NAdd(grossCost, feeCost)
  IN  IF NGt(totalCost, sm.cashKrw) THEN sm
      ELSE [sm EXCEPT !.cashKrw = NSub(@, totalCost),
                      !.position = [open |-> TRUE, side |-> pl.side,
                                    entryPrice |-> pl.entryPrice, quantity |-> pl.quantity,
                                    entryIndex |-> index, stopLoss |-> pl.stopLoss,
                                    targetPrice |-> pl.targetPrice,
                                    initialStopLoss |-> pl.stopLoss]]

buildPortfolio(sm, price) ==
  LET positionValue == IF sm.position.open THEN NMul(sm.position.quantity, price) ELSE Zero
  IN  [totalEquityKrw |-> NAdd(sm.cashKrw, positionValue), cashKrw |-> sm.cashKrw,
       posQty |-> IF sm.position.open THEN sm.position.quantity ELSE Undef,
       realizedPnlTodayPct |-> sm.realizedPnlToday]

\* the sum, and the number of gains, over the pnl of the trades
RECURSIVE SumPnl(_)
SumPnl(ts) == IF ts = <<>> THEN Zero ELSE NAdd(SumPnl(SubSeq(ts, 1, Len(ts) - 1)), ts[Len(ts)].pnl)

Winning(ts) == Cardinality({k \in DOMAIN ts : NGt(ts[k].pnl, Zero)})
Losing(ts) == Cardinality({k \in DOMAIN ts : NLe(ts[k].pnl, Zero)})

\* buildResult(): the BacktestResult; trades, equityCurve and debugStats are
\* the simulator's own objects, recorded with their identity
buildResult(sm, cfg) ==
  [totalTrades |-> Len(sm.trades),
   winningTrades |-> Winning(sm.trades),
   losingTrades |-> Losing(sm.trades),
   winRate |-> IF Len(sm.trades) # 0
               THEN NMul(NDiv(Int2Num(Winning(sm.trades)), Int2Num(Len(sm.trades))),
                         Int2Num(100))
               ELSE Zero,
   totalPnl |-> SumPnl(sm.trades),
   totalPnlPercent |-> NMul(NDiv(SumPnl(sm.trades), cfg.initialCapitalKrw), Int2Num(100)),
   maxDrawdown |-> NMul(sm.maxDrawdown, Int2Num(100)),
   sharpeRatio |-> Zero,
   trades |-> sm.trades,
   equityCurve |-> sm.equityCurve,
   signalsDetected |-> sm.signalCount,
   debugStats |-> sm.debugStats,
   arrays |-> sm.arrays]

\* lines 160-164: the exit provider is called with the position and answers
\* exit
askExitProvider(sm, cfg, i, price, exit) ==
  LET asked == [sm EXCEPT !.exitCalls = Append(@, [index |-> i, position |-> sm.position])]
  IN  IF exit.shouldExit
      THEN closePosition(asked, cfg, i, Coalesce(exit.exitPrice, price), "SIGNAL")
      ELSE asked

\* the loop body consulting the exit provider before the hard stop and target
manageOpenPosition_signalFirst(sm, cfg, i, price, exit) ==
  LET pos0 == sm.position
      newStop == armBreakEven(pos0, price, cfgBeTriggerR(cfg))
      beArmed == beArmedAfter(pos0, newStop)
      pos == [pos0 EXCEPT !.stopLoss = newStop]
      sm1 == [sm EXCEPT !.position = pos]
      heldBars == i - pos.entryIndex
  IN  IF /\ cfg.hasExitProvider
         /\ NGe(Int2Num(heldBars), cfgMinHoldBars(cfg))
         /\ (~cfgAfterBeOnly(cfg) \/ beArmed)
      THEN askExitProvider(sm1, cfg, i, price, exit)
      ELSE IF Truthy(pos.stopLoss) /\ NLe(price, pos.stopLoss)
      THEN closePosition(sm1, cfg, i, pos.stopLoss, "STOP_LOSS")
      ELSE IF Truthy(pos.targetPrice) /\ NGe(price, pos.targetPrice)
      THEN closePosition(sm1, cfg, i, pos.targetPrice, "TAKE_PROFIT")
      ELSE sm1

\* the part of the loop body that manages an open position (lines 127-167);
\* exit is what the exit provider answers when it is asked
manageOpenPosition(sm, cfg, i, price, exit) ==
  LET pos0 == sm.position
      newStop == armBreakEven(pos0, price, cfgBeTriggerR(cfg))
      beArmed == beArmedAfter(pos0, newStop)
      pos == [pos0 EXCEPT !.stopLoss = newStop]
      sm1 == [sm EXCEPT !.position = pos]
      heldBars == i - pos.entryIndex
  IN  IF Truthy(pos.stopLoss) /\ NLe(price, pos.stopLoss)
      THEN closePosition(sm1, cfg, i, pos.stopLoss, "STOP_LOSS")
      ELSE IF Truthy(pos.targetPrice) /\ NGe(price, pos.targetPrice)
      THEN closePosition(sm1, cfg, i, pos.targetPrice, "TAKE_PROFIT")
      ELSE IF /\ cfg.hasExitProvider
              /\ NGe(Int2Num(heldBars), cfgMinHoldBars(cfg))
              /\ (~cfgAfterBeOnly(cfg) \/ beArmed)
      THEN askExitProvider(sm1, cfg, i, price, exit)
      ELSE sm1

\* lines 208-214: what the loop does with the plan pl of the planner
executePlan(sm, cfg, i, pl) ==
  IF ~pl.shouldExecute \/ ~Truthy(pl.quantity) \/ pl.side = "none" \/ ~Truthy(pl.entryPrice)
  THEN [sm EXCEPT !.debugStats.plannerReject = @ + 1]
  ELSE [openPosition(sm, cfg, i, pl) EXCEPT !.debugStats.executed = @ + 1]

\* lines 171-177: the signal counters
countSignal(sm, signal) ==
  IF signal
  THEN [sm EXCEPT !.signalCount = @ + 1]
  ELSE [sm EXCEPT !.debugStats.noSignal = @ + 1]

\* lines 186-206: the plan of the planner for the bar
planForBar(sm, cfg, price, decision, atr) ==
  planOrder(cfg.riskPolicy, decision, price, buildPortfolio(sm, price),
            getRiskScaleForSymbol,
            getVolatilityBasedSlTp(IF NGt(price, Zero) THEN NDiv(atr, price)
                                   ELSE Rat(3, 100)))

\* lines 180-214 on the simulator with the signal counted
decideAndEnter(sm, cfg, i, price, decision, atr) ==
  IF ~decision.shouldTrade
  THEN [sm EXCEPT !.debugStats.agentSkip = @ + 1]
  ELSE executePlan(sm, cfg, i, planForBar(sm, cfg, price, decision, atr))

\* the part of the loop body that runs when no position is open (lines
\* 171-214); signal tells whether detectVolatilitySignal found one, decision
\* is the provider's answer, atr the ATR(14) of the window
tryEnter(sm, cfg, i, price, signal, decision, atr) ==
  IF ~signal /\ cfgGateOnSignal(cfg)
  THEN countSignal(sm, signal)
  ELSE decideAndEnter(countSignal(sm, signal), cfg, i, price, decision, atr)

\* one iteration of the loop of runRange for bar i
barStep(sm, cfg, i, price, exit, signal, decision, atr) ==
  IF sm.position.open
  THEN manageOpenPosition(updateEquity(sm, price), cfg, i, price, exit)
  ELSE tryEnter(updateEquity(sm, price), cfg, i, price, signal, decision, atr)

----------------------------------------------------------------------------
(* TradingBotWS.managePosition (src/src/core/TradingBotWS.ts) and          *)
(* RiskManager (src/src/risk/RiskManager.ts)                               *)

\* BREAKOUT_STRATEGY_CONFIG.beTriggerR and the riskLimits of loadConfig
liveBeTriggerR == Rat(1, 4)
limStopLossRatio == symStopLossPct
limTakeProfitRatio == symTakeProfitPct
limMaxDrawdownRatio == Rat(5, 100)

\* a || b
OrElse(a, b) == IF Truthy(a) THEN a ELSE b

\* the live Position has no initialStopLoss and no entryIndex
NoLivePosition ==
  [open |-> FALSE, side |-> "none", entryPrice |-> Undef, quantity |-> Undef,
   stopLoss |-> Undef, targetPrice |-> Undef]

createEmptyStats ==
  [trades |-> 0, wins |-> 0, losses |-> 0, totalPnl |-> Zero, maxDrawdown |-> Zero]

calculatePnlRatio(position, currentPrice) ==
  LET direction == IF position.side = "LONG" THEN One ELSE Int2Num(-1)
  IN  NMul(NDiv(NSub(currentPrice, position.entryPrice), position.entryPrice), direction)

isDrawdownExceeded(rm) ==
  IF rm.peakEquity = Zero THEN FALSE
  ELSE NGe(NDiv(rm.dailyStats.maxDrawdown, rm.peakEquity), limMaxDrawdownRatio)

checkPositionRisk(rm, position, currentPrice) ==
  LET pnlRatio == calculatePnlRatio(position, currentPrice)
  IN  IF NLe(pnlRatio, NNeg(limStopLossRatio))
      THEN [action |-> "CLOSE", reason |-> "STOP_LOSS"]
      ELSE IF NGe(pnlRatio, limTakeProfitRatio)
      THEN [action |-> "CLOSE", reason |-> "TAKE_PROFIT"]
      ELSE IF isDrawdownExceeded(rm)
      THEN [action |-> "CLOSE", reason |-> "DRAWDOWN_LIMIT"]
      ELSE [action |-> "HOLD", reason |-> "none"]

updateMaxDrawdown(rm) ==
  LET currentDrawdown == NAdd(NSub(rm.peakEquity, rm.initialEquity), rm.dailyStats.totalPnl)
  IN  IF NLt(currentDrawdown, Zero) /\ NGt(NNeg(currentDrawdown), rm.dailyStats.maxDrawdown)
      THEN [rm EXCEPT !.dailyStats.maxDrawdown = NNeg(currentDrawdown)]
      ELSE rm

\* recordTrade(result); a TradeResult of managePosition always has a pnl
recordTrade(rm, result) ==
  updateMaxDrawdown(
    [rm EXCEPT !.tradeHistory = Append(@, result),
               !.dailyStats.trades = @ + 1,
               !.dailyStats.totalPnl = NAdd(@, result.pnl),
               !.dailyStats.wins = IF NGt(result.pnl, Zero) THEN @ + 1 ELSE @,
               !.dailyStats.losses = IF NGt(result.pnl, Zero) THEN @ ELSE @ + 1])

\* RiskManager.setInitialEquity(equity) and RiskManager.updateEquity(currentEquity)
setInitialEquity(rm, equity) == [rm EXCEPT !.initialEquity = equity, !.peakEquity = equity]

riskUpdateEquity(rm, currentEquity) ==
  IF NGt(currentEquity, rm.peakEquity) THEN [rm EXCEPT !.peakEquity = currentEquity] ELSE rm

\* the fields of a RiskManager after construction
newRiskManager ==
  [initialEquity |-> Zero, peakEquity |-> Zero, tradeHistory |-> <<>>,
   dailyStats |-> createEmptyStats]

\* lines 595-618: the position after the break-even test and the action
\* chosen for it
liveStop(position, currentPrice) ==
  LET risk == NSub(position.entryPrice,
                   OrElse(position.stopLoss, NMul(position.entryPrice, Rat(98, 100))))
      currentR == NDiv(NSub(currentPrice, position.entryPrice), risk)
  IN  IF /\ ~(Truthy(position.stopLoss) /\ NLe(currentPrice, position.stopLoss))
         /\ ~(Truthy(position.targetPrice) /\ NGe(currentPrice, position.targetPrice))
         /\ NGe(currentR, liveBeTriggerR)
         /\ Truthy(position.stopLoss) /\ NLt(position.stopLoss, position.entryPrice)
      THEN position.entryPrice
      ELSE position.stopLoss

finalAction(rm, position, currentPrice) ==
  IF Truthy(position.stopLoss) /\ NLe(currentPrice, position.stopLoss)
  THEN [action |-> "CLOSE", reason |-> "STOP_LOSS"]
  ELSE IF Truthy(position.targetPrice) /\ NGe(currentPrice, position.targetPrice)
  THEN [action |-> "CLOSE", reason |-> "TAKE_PROFIT"]
  ELSE checkPositionRisk(rm, [position EXCEPT !.stopLoss = liveStop(position, currentPrice)],
                         currentPrice)

\* lines 620-688 for a closing action: the market order succeeds ("ok"),
\* fails with insufficient_funds or under_min_total ("invalid") or fails
\* otherwise ("fail")
closeLive(bot, rm, currentPrice, reason, order) ==
  LET pos == bot.position
      r == calculatePnl(pos.side, pos.entryPrice, pos.quantity, currentPrice, feeRate)
  IN  CASE order = "ok" ->
             [bot |-> [bot EXCEPT !.position = NoLivePosition,
                                  !.realizedPnlToday = NAdd(@, NDiv(r.pnlPercent, Int2Num(100))),
                                  !.cooldowns = @ + 1],
              rm |-> recordTrade(rm, [side |-> pos.side, entryPrice |-> pos.entryPrice,
                                      exitPrice |-> currentPrice, quantity |-> pos.quantity,
                                      pnl |-> r.pnl, pnlPercent |-> r.pnlPercent,
                                      exitReason |-> reason])]
        [] order = "invalid" -> [bot |-> [bot EXCEPT !.position = NoLivePosition], rm |-> rm]
        [] OTHER -> [bot |-> bot, rm |-> rm]

\* managePosition(state, currentPrice); realBalance is what getActualBalance
\* answers, order the outcome of exchange.createOrder
managePosition(bot, rm, currentPrice, realBalance, order) ==
  IF ~bot.position.open THEN [bot |-> bot, rm |-> rm]
  ELSE IF NLe(realBalance, Zero)
  THEN [bot |-> [bot EXCEPT !.position = NoLivePosition], rm |-> rm]
  ELSE IF finalAction(rm, [bot.position EXCEPT !.quantity = realBalance],
                      currentPrice).action = "HOLD"
  THEN [bot |-> [bot EXCEPT !.position.quantity = realBalance,
                            !.position.stopLoss = liveStop(bot.position, currentPrice)],
        rm |-> rm]
  ELSE closeLive([bot EXCEPT !.position.quantity = realBalance,
                             !.position.stopLoss = liveStop(bot.position, currentPrice)],
                 rm, currentPrice,
                 finalAction(rm, [bot.position EXCEPT !.quantity = realBalance],
                             currentPrice).reason,
                 order)

----------------------------------------------------------------------------

(* bootstrapExpectancyCI (src/src/backtest/testBreakout.ts)                *)

\* if (rMultiples.length < 10)
MinSample == 10

\* the call bootstrapExpectancyCI(overall.rMultiples) leaves iterations at
\* its default of 1000; the model makes Iterations resamplings
Iterations == 3

\* Math.floor(iterations * num / den), the index of a percentile
PercentileIndex(iterations, num, den) == (iterations * num) \div den

\* a sorted list with x inserted after the elements that are not above it
RECURSIVE InsertAsc(_, _)
InsertAsc(xs, x) ==
  IF xs = <<>> THEN <<x>>
  ELSE IF NLt(NSub(x, xs[Len(xs)]), Zero)
  THEN Append(InsertAsc(SubSeq(xs, 1, Len(xs) - 1), x), xs[Len(xs)])
  ELSE Append(xs, x)

\* a list left in the order of its collection
RECURSIVE SortAsc_unsorted(_)
SortAsc_unsorted(xs) ==
  IF xs = <<>> THEN <<>> ELSE Append(SortAsc_unsorted(SubSeq(xs, 1, Len(xs) - 1)), xs[Len(xs)])

\* expectations.sort((a, b) => a - b) on finite numbers
RECURSIVE SortAsc(_)
SortAsc(xs) ==
  IF xs = <<>> THEN <<>> ELSE InsertAsc(SortAsc(SubSeq(xs, 1, Len(xs) - 1)), xs[Len(xs)])

\* sample.reduce((a, b) => a + b, 0)
RECURSIVE SumSeq(_)
SumSeq(xs) == IF xs = <<>> THEN Zero ELSE NAdd(SumSeq(SubSeq(xs, 1, Len(xs) - 1)), xs[Len(xs)])

\* lines 215-221: the mean of the sample that the indices idxs draw
sampleMean(rMultiples, idxs) ==
  NDiv(SumSeq([j \in DOMAIN idxs |-> rMultiples[idxs[j]]]), Int2Num(Len(idxs)))

\* expectations[idx] of the zero-based array
At(xs, idx) == IF idx + 1 \in DOMAIN xs THEN xs[idx + 1] ELSE Undef

\* lines 224-235: the percentiles of the collected expectations
percentiles(expectations, iterations) ==
  [p5 |-> At(SortAsc(expectations), PercentileIndex(iterations, 5, 100)),
   p50 |-> At(SortAsc(expectations), PercentileIndex(iterations, 50, 100)),
   p95 |-> At(SortAsc(expectations), PercentileIndex(iterations, 95, 100)),
   safeForLive |-> NGt(At(SortAsc(expectations), PercentileIndex(iterations, 5, 100)), Zero)]

Sentinel == [p5 |-> Zero, p50 |-> Zero, p95 |-> Zero, safeForLive |-> FALSE]

NoCI == [p5 |-> Undef, p50 |-> Undef, p95 |-> Undef, safeForLive |-> FALSE]

----------------------------------------------------------------------------

(* detectVolatilitySignalAt (src/src/trading/TradingCore.ts)               *)

\* if (i < 30), atrPeriod = 14, the 30 candles of the average ATR and of
\* the volume sample, sample.length < 10
MinSignalIndex == 30
atrPeriod == 14
AvgWindow == 30
MinVolumeSample == 10

\* Math.abs(a)
NAbs(a) == IF NLt(a, Zero) THEN NNeg(a) ELSE ToNum(a)

\* candles[k] of the zero-based array; NoCandle is undefined
NoCandle ==
  [has |-> FALSE, timestamp |-> 0, open |-> Undef, high |-> Undef, low |-> Undef,
   close |-> Undef, volume |-> Undef]

CandleAt(candles, k) == IF k \in DOMAIN candles THEN candles[k] ELSE NoCandle

trueRange(c, prevClose) ==
  NMax(NMax(NSub(c.high, c.low), NAbs(NSub(c.high, prevClose))), NAbs(NSub(c.low, prevClose)))

\* trSum after the loop over candles[k..to], entered with trSum
RECURSIVE SumTr(_, _, _, _)
SumTr(candles, trSum, k, to) ==
  IF k > to THEN trSum
  ELSE CHOOSE r \in {SumTr(candles, s, k + 1, to) :
                       s \in {NAdd(trSum, trueRange(candles[k], candles[k - 1].close))}} : TRUE

\* atr after the Wilder smoothing over candles[k..to], entered with atr
RECURSIVE Smooth(_, _, _, _, _)
Smooth(candles, atr, k, to, period) ==
  IF k > to THEN atr
  ELSE CHOOSE r \in {Smooth(candles, a, k + 1, to, period) :
                       a \in {NDiv(NAdd(NMul(atr, Int2Num(period - 1)),
                                        trueRange(candles[k], candles[k - 1].close)),
                                   Int2Num(period))}} : TRUE

\* the first ATR: the mean of the true ranges of candles[initStart..initEnd]
firstAtr(candles, initStart, initEnd) ==
  IF initEnd - initStart + 1 > 0
  THEN NDiv(SumTr(candles, Zero, initStart, initEnd), Int2Num(initEnd - initStart + 1))
  ELSE Zero

calcAtrWilderWindow(candles, endIndex, period, windowLen) ==
  LET start == Max2(1, endIndex - windowLen + 1)
      initStart == Max2(start, endIndex - windowLen + 1)
      initEnd == Min2(endIndex, initStart + period - 1)
  IN  CHOOSE r \in {Smooth(candles, atr, initEnd + 1, endIndex, period) :
                      atr \in {firstAtr(candles, initStart, initEnd)}} : TRUE

\* a candidate that was not built
NoCandidate ==
  [has |-> FALSE, strength |-> Zero, type |-> "null", value |-> Undef, threshold |-> Undef,
   direction |-> "null", timestamp |-> 0, atrPercent |-> Undef]

Candidate(strength, type, value, threshold, direction, timestamp, atrPercent) ==
  [has |-> TRUE, strength |-> strength, type |-> type, value |-> value,
   threshold |-> threshold, direction |-> direction, timestamp |-> timestamp,
   atrPercent |-> atrPercent]

buildAtrSpikeCandidate(candles, thresholds, i, atr, avgAtr, atrPercent) ==
  LET threshold == NMul(avgAtr, NAdd(One, thresholds.atrMultiplier))
      ref == CandleAt(candles, i - (14 - 1))
  IN  IF NLe(avgAtr, Zero) \/ NLe(atr, threshold) THEN NoCandidate
      ELSE Candidate(NDiv(atr, threshold), "ATR_SPIKE", atr, threshold,
                     IF ref.has /\ NGt(candles[i].close, ref.close) THEN "UP" ELSE "DOWN",
                     candles[i].timestamp, atrPercent)

\* buildPriceSurgeCandidate naming the direction the wrong way round
buildPriceSurgeCandidate_flipped(thresholds, last, prev, atrPercent) ==
  LET priceChangePct == NDiv(NSub(last.close, prev.close), prev.close)
  IN  IF NLe(prev.close, Zero) \/ NLe(NAbs(priceChangePct), thresholds.priceSurgePct)
      THEN NoCandidate
      ELSE Candidate(NDiv(NAbs(priceChangePct), thresholds.priceSurgePct), "PRICE_SURGE",
                     NMul(NAbs(priceChangePct), Int2Num(100)),
                     NMul(thresholds.priceSurgePct, Int2Num(100)),
                     IF NGt(priceChangePct, Zero) THEN "DOWN" ELSE "UP",
                     last.timestamp, atrPercent)

buildPriceSurgeCandidate(thresholds, last, prev, atrPercent) ==
  LET priceChangePct == NDiv(NSub(last.close, prev.close), prev.close)
      absChange == NAbs(priceChangePct)
  IN  IF NLe(prev.close, Zero) \/ NLe(absChange, thresholds.priceSurgePct)
      THEN NoCandidate
      ELSE Candidate(NDiv(absChange, thresholds.priceSurgePct), "PRICE_SURGE",
                     NMul(absChange, Int2Num(100)),
                     NMul(thresholds.priceSurgePct, Int2Num(100)),
                     IF NGt(priceChangePct, Zero) THEN "UP" ELSE "DOWN",
                     last.timestamp, atrPercent)

\* the sum after sample.reduce over candles[k..to], entered with sum
RECURSIVE SumVolume(_, _, _, _)
SumVolume(candles, sum, k, to) ==
  IF k > to THEN sum
  ELSE CHOOSE r \in {SumVolume(candles, s, k + 1, to) :
                       s \in {NAdd(sum, candles[k].volume)}} : TRUE

buildDirection3(candles, i) ==
  LET change == NSub(candles[i].close, candles[Max2(0, i - 2)].open)
  IN  IF NGt(change, Zero) THEN "UP" ELSE IF NLt(change, Zero) THEN "DOWN" ELSE "NEUTRAL"

buildVolumeSpikeCandidate(candles, thresholds, i, atrPercent) ==
  LET start == Max2(0, i - AvgWindow)
      avgVol == NDiv(SumVolume(candles, Zero, start, i - 1), Int2Num(i - start))
      ratio == NDiv(candles[i].volume, avgVol)
  IN  IF i - start < MinVolumeSample \/ NLe(avgVol, Zero)
         \/ NLe(ratio, thresholds.volumeSpikeMultiplier)
      THEN NoCandidate
      ELSE Candidate(NDiv(ratio, thresholds.volumeSpikeMultiplier), "VOLUME_SPIKE", ratio,
                     thresholds.volumeSpikeMultiplier, buildDirection3(candles, i),
                     candles[i].timestamp, atrPercent)

\* candidates.sort((a, b) => b.strength - a.strength)[0] of the candidates
\* that were built, in the order they were pushed; the sort is stable
Strongest(a, b, c) ==
  LET ab == IF ~a.has \/ (b.has /\ NGt(b.strength, a.strength)) THEN b ELSE a
  IN  IF ~ab.has \/ (c.has /\ NGt(c.strength, ab.strength)) THEN c ELSE ab

pickBestVolatilitySignal(candles, thresholds, i, atr, avgAtr, atrPercent) ==
  Strongest(buildAtrSpikeCandidate(candles, thresholds, i, atr, avgAtr, atrPercent),
            buildPriceSurgeCandidate(thresholds, candles[i], candles[i - 1], atrPercent),
            buildVolumeSpikeCandidate(candles, thresholds, i, atrPercent))

\* the signal returned, NoCandidate for null
detectVolatilitySignalAt(candles, thresholds, i) ==
  IF i < MinSignalIndex \/ ~CandleAt(candles, i).has \/ ~CandleAt(candles, i - 1).has
  THEN NoCandidate
  ELSE pickBestVolatilitySignal(
         candles, thresholds, i,
         calcAtrWilderWindow(candles, i, atrPeriod, atrPeriod + 1),
         calcAtrWilderWindow(candles, i, atrPeriod, AvgWindow),
         NDiv(calcAtrWilderWindow(candles, i, atrPeriod, atrPeriod + 1), candles[i].close))

----------------------------------------------------------------------------

(* State                                                                   *)

VARIABLES
  \* OrderPlanner call: its arguments, its position and the plan it returned
  pIn, pPc, plan,
  \* GuardrailEngine: this.state, the wall clock (Date.now()), the value the
  \* last call returned ("none" for a call that returns nothing)
  gState, nowMs, gRet,
  \* history of the guardrail: exit reasons of the trades closed since the
  \* ledger was last reset, and whether a cooldown armed today is still
  \* undisturbed by a close ("armed"), disturbed ("dirty") or absent ("none")
  closedToday, gArm,
  \* BacktestSimulator: its configuration, its fields, the position of
  \* runRange ("idle", "loop", "done"), the loop index i, the end index and
  \* the close of the bar processed last
  sCfg, sim, sPc, sI, sEnd, sLastClose,
  \* one closed long or short position: the figures of the close, which
  \* computation was applied ("call" before it, "calc" for calculatePnl,
  \* "closed" for BacktestSimulator.closePosition) and the [pnl, pnlPercent]
  \* it reported
  kIn, kPc, kOut,
  \* one long position managed by the live bot and by the simulator on the
  \* same prices: the bot's state, its RiskManager, the simulator's fields and
  \* configuration, the number of prices seen, whether the pair is in use
  \* ("run") and whether the exchange has so far reported the balance and
  \* filled every order
  mBot, mRisk, mSim, mCfg, mStep, mPc, mFair,
  \* runs of runRange on one simulator: what the candles and the providers
  \* gave on each bar of the first run, the results returned so far and the
  \* number of runs started
  rTape, rResults, rRuns,
  \* one call of bootstrapExpectancyCI: its argument, its position ("call",
  \* "loop", "done"), the loop index i, the expectations collected and the
  \* BootstrapCI returned
  bIn, bPc, bI, bExp, bOut,
  \* one call of detectVolatilitySignalAt: the candles, the thresholds, the
  \* index asked for, its position ("call", "done") and the signal returned
  dCandles, dTh, dI, dPc, dOut,
  \* one RiskManager: its fields, the answer of the last call when it was
  \* checkPositionRisk, the price of that call and the number of calls made
  rmSt, rmOut, rmPrice, rmN,
  \* one StateMachine: its fields, the clock, and the last call made on it
  \* (operation, argument, return value, listener invocations)
  smState, smHistory, smListeners, smNow, smOp, smTo, smRet, smCalls,
  \* one UpbitWebSocket following one of its two sockets, and the number of
  \* connect() / disconnect() calls made on it
  ws, wsCalls,
  \* the polling TradingBot on one symbol: the symbol's state with the bot's
  \* ledger, each tick's position in its handler, the clock and the timestamp
  \* of the newest candle
  bot, tk, tbNow, tbCandle,
  \* the symbols that share the GuardrailEngine: those holding a trade that
  \* check admitted, and the number of trades admitted on the engine's day
  dkOpen, dkAdmitted,
  \* TradingBot life cycle: the state machine's state, the interval timer,
  \* the ticks in flight and the recovery timers pending
  life,
  \* TradingBot with several symbols in one tick: the account and the tick's
  \* ledger, and each symbol's state with the position of its processSymbol
  bk, sy

plannerVars == <<pIn, pPc, plan>>
guardVars == <<gState, nowMs, gRet, closedToday, gArm>>
simVars == <<sCfg, sim, sPc, sI, sEnd, sLastClose>>
pnlVars == <<kIn, kPc, kOut>>
manageVars == <<mBot, mRisk, mSim, mCfg, mStep, mPc, mFair>>
rerunVars == <<rTape, rResults, rRuns>>
bootVars == <<bIn, bPc, bI, bExp, bOut>>
detectVars == <<dCandles, dTh, dI, dPc, dOut>>
riskVars == <<rmSt, rmOut, rmPrice, rmN>>
machineVars == <<smState, smHistory, smListeners, smNow, smOp, smTo, smRet, smCalls>>
socketVars == <<ws, wsCalls>>
botVars == <<bot, tk, tbNow, tbCandle>>
deskVars == <<dkOpen, dkAdmitted>>
lifeVars == <<life>>
bookVars == <<bk, sy>>
vars == <<pIn, pPc, plan, gState, nowMs, gRet, closedToday, gArm,
          sCfg, sim, sPc, sI, sEnd, sLastClose, kIn, kPc, kOut,
          mBot, mRisk, mSim, mCfg, mStep, mPc, mFair, rTape, rResults, rRuns,
          bIn, bPc, bI, bExp, bOut, dCandles, dTh, dI, dPc, dOut,
          rmSt, rmOut, rmPrice, rmN,
          smState, smHistory, smListeners, smNow, smOp, smTo, smRet, smCalls,
          ws, wsCalls, bot, tk, tbNow, tbCandle, dkOpen, dkAdmitted, life, bk, sy>>

----------------------------------------------------------------------------
(* planOrder applied to bounded inputs                                     *)

\* prices are taken around BasePrice, account sizes around BaseEquity
BasePrice == 100
BaseEquity == 1000

NoTradeDecision ==
  [shouldTrade |-> FALSE, side |-> "LONG", confidence |-> Int2Num(100),
   entryPrice |-> Undef, stopLoss |-> Undef, targetPrice |-> Undef]

Decisions ==
  {NoTradeDecision, [NoTradeDecision EXCEPT !.shouldTrade = TRUE, !.side = "none"]}
  \cup
  [shouldTrade : {TRUE},
   side : {"LONG", "SHORT"},
   confidence : {Int2Num(150), Int2Num(100), Int2Num(50), Zero, NaN},
   entryPrice : {Undef, Int2Num(BasePrice + 1)},
   stopLoss : {Undef, Int2Num(BasePrice - 2), Int2Num(BasePrice + 2)},
   targetPrice : {Undef, Int2Num(BasePrice + 4), Int2Num(BasePrice - 4), NaN}]

Portfolios ==
  [totalEquityKrw : {Int2Num(BaseEquity)},
   cashKrw : {Int2Num(BaseEquity), Int2Num(BaseEquity \div 4)},
   posQty : {Undef, Int2Num(2)},
   realizedPnlTodayPct : {Zero, Rat(-1, 20)}]

Policies ==
  [riskPerTradePct : {Rat(1, 100)},
   maxPositionPctPerSymbol : {Rat(1, 5), One},
   maxTotalExposurePct : {Rat(4, 5)},
   maxDailyLossPct : {Rat(1, 20)},
   minNotionalKrw : {Int2Num(50), Int2Num(4)},
   maxNotionalKrw : {Int2Num(BaseEquity), Int2Num(BaseEquity \div 8)},
   fallbackStopLossPct : {Rat(1, 200), Zero}]

CustomSlTps ==
  {[present |-> FALSE, sl |-> Undef, tp |-> Undef],
   [present |-> TRUE, sl |-> Rat(1, 50), tp |-> Rat(1, 25)],
   [present |-> TRUE, sl |-> Zero, tp |-> Rat(1, 25)]}

PlannerInputs ==
  [risk : Policies, decision : Decisions, price : {Int2Num(BasePrice)},
   portfolio : Portfolios, riskScale : {Rat(1, 2)}, customSlTp : CustomSlTps]

NoPlan == reject("")

InitPlanner ==
  /\ pIn \in PlannerInputs
  /\ pPc = "call"
  /\ plan = NoPlan

IdlePlanner ==
  /\ pIn = [risk |-> CHOOSE x \in Policies : TRUE, decision |-> NoTradeDecision,
            price |-> Int2Num(BasePrice), portfolio |-> CHOOSE x \in Portfolios : TRUE,
            riskScale |-> Rat(1, 2), customSlTp |-> CHOOSE x \in CustomSlTps : ~x.present]
  /\ pPc = "idle"
  /\ plan = NoPlan

\* one call of OrderPlanner.planOrder
PlanOrder ==
  /\ pPc = "call"
  /\ plan' = planOrder(pIn.risk, pIn.decision, pIn.price, pIn.portfolio,
                       pIn.riskScale, pIn.customSlTp)
  /\ pPc' = "done"
  /\ UNCHANGED <<pIn, guardVars, simVars, pnlVars, manageVars, rerunVars, bootVars,
                 detectVars, riskVars, machineVars, socketVars, botVars, deskVars,
                 lifeVars, bookVars>>

----------------------------------------------------------------------------
(* GuardrailEngine driven by calls and by the clock                        *)

\* the run starts at StartHourUtc o'clock UTC and the clock advances by whole
\* hours, at most MaxTicks times; at most MaxCloses trades are closed per day
StartHourUtc == 12
MaxTicks == 3
MaxCloses == 3

ClosedTrades ==
  {[r |-> -100, pnlPct |-> -50, exitReason |-> "STOP_LOSS"],
   [r |-> 300, pnlPct |-> 150, exitReason |-> "TAKE_PROFIT"],
   [r |-> -50, pnlPct |-> -150, exitReason |-> "SIGNAL"],
   [r |-> 0, pnlPct |-> 0, exitReason |-> "END"]}

\* the pre-trade contexts. A shape gives how long before the call the
\* context was stamped (nowLag), the age of the last candle at that stamp and
\* the market figures. Shape(k, absent, lag) fails the market-quality tests
\* number k, k+1, ... of check (1 stale candles, 2 fee, 3 stop, 4 spread,
\* 5 book depth, 6 volume) and passes the earlier ones; k = 7 passes all.
\* With absent = TRUE the three optional figures are left out.
Shape(k, absent, lag) ==
  [nowLag |-> lag,
   candleAge |-> IF k <= 1 THEN 3 * HourMs ELSE 2 * HourMs,
   tfMinutes |-> 60,
   feeInR |-> IF k <= 2 THEN 25 ELSE 9,
   stopPct |-> IF k <= 3 THEN 30 ELSE 100,
   spreadPct |-> IF absent THEN Absent ELSE IF k <= 4 THEN Present(15) ELSE Present(2),
   topBookKrw |-> IF absent THEN Absent ELSE IF k <= 5 THEN Present(5) ELSE Present(50),
   volume24hKrw |-> IF absent THEN Absent
                    ELSE IF k <= 6 THEN Present(10000) ELSE Present(100000)]

CtxShapes ==
  {Shape(k, ab, 0) : k \in 1..7, ab \in BOOLEAN} \cup {Shape(k, FALSE, HourMs) : k \in {1, 7}}

\* the PreTradeContext of a call made at wall-clock time now
MkCtx(sh, now) ==
  [nowMs |-> now - sh.nowLag, lastCandleTs |-> now - sh.nowLag - sh.candleAge,
   tfMinutes |-> sh.tfMinutes, feeInR |-> sh.feeInR, stopPct |-> sh.stopPct,
   spreadPct |-> sh.spreadPct, topBookKrw |-> sh.topBookKrw,
   volume24hKrw |-> sh.volume24hKrw]

StartMs == StartHourUtc * HourMs

\* new GuardrailEngine()
InitGuard ==
  /\ nowMs = StartMs
  /\ gState = createFreshState(StartMs)
  /\ gRet = "none"
  /\ closedToday = <<>>
  /\ gArm = "none"

\* check(ctx)
Check(sh) ==
  LET ctx == MkCtx(sh, nowMs)
      st == ensureDayReset(gState, nowMs)
      newDay == st # gState
      d == checkDecision(st, ctx)
  IN  /\ gState' = checkState(st, ctx)
      /\ gRet' = d
      /\ closedToday' = IF newDay THEN <<>> ELSE closedToday
      /\ gArm' = IF d = "CONSECUTIVE_SL" THEN "armed"
                 ELSE IF newDay THEN "none" ELSE gArm
      /\ UNCHANGED <<nowMs, plannerVars, simVars, pnlVars, manageVars, rerunVars,
                     bootVars, detectVars, riskVars, machineVars, socketVars, botVars,
                     deskVars, lifeVars, bookVars>>

\* onTradeClosed(trade)
OnTradeClosed(trade) ==
  LET st == ensureDayReset(gState, nowMs)
      newDay == st # gState
  IN  /\ st.tradesToday < MaxCloses
      /\ gState' = applyTradeClosed(st, trade)
      /\ gRet' = "none"
      /\ closedToday' = Append(IF newDay THEN <<>> ELSE closedToday, trade.exitReason)
      /\ gArm' = IF newDay \/ gArm = "none" THEN "none" ELSE "dirty"
      /\ UNCHANGED <<nowMs, plannerVars, simVars, pnlVars, manageVars, rerunVars,
                     bootVars, detectVars, riskVars, machineVars, socketVars, botVars,
                     deskVars, lifeVars, bookVars>>

\* getState()
GetState ==
  LET st == ensureDayReset(gState, nowMs)
      newDay == st # gState
  IN  /\ newDay
      /\ gState' = st
      /\ gRet' = "none"
      /\ closedToday' = <<>>
      /\ gArm' = "none"
      /\ UNCHANGED <<nowMs, plannerVars, simVars, pnlVars, manageVars, rerunVars,
                     bootVars, detectVars, riskVars, machineVars, socketVars, botVars,
                     deskVars, lifeVars, bookVars>>

\* the wall clock advances
Tick ==
  /\ nowMs < StartMs + MaxTicks * HourMs
  /\ nowMs' = nowMs + HourMs
  /\ UNCHANGED <<gState, gRet, closedToday, gArm, plannerVars, simVars, pnlVars,
                 manageVars, rerunVars, bootVars, detectVars, riskVars, machineVars,
                 socketVars, botVars, deskVars, lifeVars, bookVars>>

IdleGuard ==
  /\ nowMs = StartMs
  /\ gState = createFreshState(StartMs)
  /\ gRet = "idle"
  /\ closedToday = <<>>
  /\ gArm = "none"

NextGuard ==
  \/ \E sh \in CtxShapes : Check(sh)
  \/ \E t \in ClosedTrades : OnTradeClosed(t)
  \/ GetState
  \/ Tick

----------------------------------------------------------------------------
(* BacktestSimulator.runRange driven bar by bar                            *)

\* the candle series has WarmupBars + NBars candles
NBars == 4

\* the closes a bar can have
SimPrices == {Int2Num(80), Int2Num(100), Int2Num(125)}

SimPolicy ==
  [riskPerTradePct |-> Rat(1, 100), maxPositionPctPerSymbol |-> Rat(1, 2),
   maxTotalExposurePct |-> Rat(4, 5), maxDailyLossPct |-> Rat(1, 20),
   minNotionalKrw |-> Int2Num(500), maxNotionalKrw |-> Int2Num(20000),
   fallbackStopLossPct |-> Rat(1, 200)]

BaseSimConfig ==
  [initialCapitalKrw |-> Int2Num(100000), riskPolicy |-> SimPolicy, feeRate |-> feeRate,
   beTriggerR |-> Undef, gateOnSignal |-> "unset", hasExitProvider |-> FALSE,
   signalExitMinHoldBars |-> Undef, signalExitAfterBeOnly |-> "unset"]

SimConfigs ==
  {BaseSimConfig,
   [BaseSimConfig EXCEPT !.hasExitProvider = TRUE],
   [BaseSimConfig EXCEPT !.hasExitProvider = TRUE, !.signalExitAfterBeOnly = "false",
                         !.gateOnSignal = "true"],
   [BaseSimConfig EXCEPT !.hasExitProvider = TRUE, !.signalExitMinHoldBars = One]}

\* what the decision provider can answer on a bar that closes at price
SimDecisions(price) ==
  {NoTradeDecision,
   [NoTradeDecision EXCEPT !.shouldTrade = TRUE],
   [NoTradeDecision EXCEPT !.shouldTrade = TRUE, !.targetPrice = NMul(price, Int2Num(2))]}

\* what the exit provider can answer
SimExits ==
  {[shouldExit |-> FALSE, exitPrice |-> Undef], [shouldExit |-> TRUE, exitPrice |-> Undef]}

\* ATR(14) of the window of a bar that closes at price: 1%, 3% or 8% of the
\* close, one value per regime of getVolatilityBasedSlTp
SimAtr(price) ==
  NMul(price, IF NLt(price, Int2Num(100)) THEN Rat(1, 100)
              ELSE IF NEq(price, Int2Num(100)) THEN Rat(3, 100) ELSE Rat(8, 100))

InitSim ==
  /\ sCfg \in SimConfigs
  /\ sim = resetSim(sCfg)
  /\ sPc = "idle"
  /\ sI = 0
  /\ sEnd = 0
  /\ sLastClose = Undef

IdleSim ==
  /\ sCfg = BaseSimConfig
  /\ sim = resetSim(sCfg)
  /\ sPc = "off"
  /\ sI = 0
  /\ sEnd = 0
  /\ sLastClose = Undef

\* runRange(candles, startIdx, endIdxExclusive, ...) up to the loop
RunRangeStart(startIdx, endIdxExclusive) ==
  /\ sPc = "idle"
  /\ sim' = reset(sim, sCfg)
  /\ sI' = Max2(startIdx, WarmupBars)
  /\ sEnd' = Min2(endIdxExclusive, WarmupBars + NBars)
  /\ sPc' = "loop"
  /\ UNCHANGED <<sCfg, sLastClose, plannerVars, guardVars, pnlVars, manageVars,
                 rerunVars, bootVars, detectVars, riskVars, machineVars, socketVars,
                 botVars, deskVars, lifeVars, bookVars>>

\* one iteration on a bar with an open position
BarHolding(price, exit) ==
  /\ sPc = "loop" /\ sI < sEnd
  /\ sim.position.open
  /\ sim' = barStep(sim, sCfg, sI, price, exit, FALSE, NoTradeDecision, Zero)
  /\ sI' = sI + 1
  /\ sLastClose' = price
  /\ UNCHANGED <<sCfg, sPc, sEnd, plannerVars, guardVars, pnlVars, manageVars, rerunVars,
                 bootVars, detectVars, riskVars, machineVars, socketVars, botVars,
                 deskVars, lifeVars, bookVars>>

\* one iteration on a bar without an open position
BarFlat(price, signal, decision) ==
  /\ sPc = "loop" /\ sI < sEnd
  /\ ~sim.position.open
  /\ sim' = barStep(sim, sCfg, sI, price, CHOOSE e \in SimExits : ~e.shouldExit,
                    signal, decision, SimAtr(price))
  /\ sI' = sI + 1
  /\ sLastClose' = price
  /\ UNCHANGED <<sCfg, sPc, sEnd, plannerVars, guardVars, pnlVars, manageVars, rerunVars,
                 bootVars, detectVars, riskVars, machineVars, socketVars, botVars,
                 deskVars, lifeVars, bookVars>>

\* the end of runRange without the forced close
RunRangeEnd_keepOpen ==
  /\ sPc = "loop" /\ sI >= sEnd
  /\ sPc' = "done"
  /\ UNCHANGED <<sim, sCfg, sI, sEnd, sLastClose, plannerVars, guardVars, pnlVars,
                 manageVars, rerunVars, bootVars, detectVars, riskVars, machineVars,
                 socketVars, botVars, deskVars, lifeVars, bookVars>>

\* the end of runRange: the forced close
RunRangeEnd ==
  /\ sPc = "loop" /\ sI >= sEnd
  /\ sim' = IF sim.position.open
            THEN closePosition(sim, sCfg, sEnd - 1, sLastClose, "END")
            ELSE sim
  /\ sPc' = "done"
  /\ UNCHANGED <<sCfg, sI, sEnd, sLastClose, plannerVars, guardVars, pnlVars, manageVars,
                 rerunVars, bootVars, detectVars, riskVars, machineVars, socketVars,
                 botVars, deskVars, lifeVars, bookVars>>

\* the ranges asked for: the whole series, its last two bars, and ranges that
\* end before the warm-up offset or beyond the series
SimRanges ==
  {<<0, WarmupBars + NBars>>, <<WarmupBars + NBars - 2, WarmupBars + NBars + 1>>,
   <<0, WarmupBars - 1>>}

NextSim ==
  \/ \E r \in SimRanges : RunRangeStart(r[1], r[2])
  \/ \E p \in SimPrices, e \in SimExits : BarHolding(p, e)
  \/ \E p \in SimPrices, sg \in BOOLEAN :
       \E d \in SimDecisions(p) : BarFlat(p, sg, d)
  \/ RunRangeEnd

----------------------------------------------------------------------------
(* The profit of one closed position, by calculatePnl and by closePosition *)

\* entry prices, exit prices, quantities, fee rates and initial capitals of
\* the closes; the exits cover losses, no move, a gain equal to the fee rate
\* and larger gains
PnlEntries == {Int2Num(100), Int2Num(200)}
PnlExits == {Int2Num(50), Int2Num(80), Int2Num(100), Int2Num(101), Int2Num(125),
             Int2Num(200), Int2Num(202)}
PnlQuantities == {One, Int2Num(2), Rat(1, 8)}
PnlFeeRates == {feeRate, Rat(1, 100)}
PnlCapitals == {Int2Num(1000), Int2Num(100000)}

PnlInputs ==
  [side : {"LONG", "SHORT"}, entryPrice : PnlEntries, exitPrice : PnlExits,
   quantity : PnlQuantities, fee : PnlFeeRates, initialCapitalKrw : PnlCapitals]

NoPnl == [pnl |-> Undef, pnlPercent |-> Undef]

InitPnl ==
  /\ kIn \in PnlInputs
  /\ kPc = "call"
  /\ kOut = NoPnl

IdlePnl ==
  /\ kIn = CHOOSE x \in PnlInputs : TRUE
  /\ kPc = "idle"
  /\ kOut = NoPnl

\* calculatePnl(position, exitPrice, feeRate)
CalculatePnl ==
  /\ kPc = "call"
  /\ kOut' = calculatePnl(kIn.side, kIn.entryPrice, kIn.quantity, kIn.exitPrice, kIn.fee)
  /\ kPc' = "calc"
  /\ UNCHANGED <<kIn, plannerVars, guardVars, simVars, manageVars, rerunVars, bootVars,
                 detectVars, riskVars, machineVars, socketVars, botVars, deskVars,
                 lifeVars, bookVars>>

\* BacktestSimulator.closePosition on a simulator holding the position (the
\* simulator holds long positions only); the result is the BacktestTrade
ClosePosition ==
  LET cfg == [BaseSimConfig EXCEPT !.initialCapitalKrw = kIn.initialCapitalKrw,
                                   !.feeRate = kIn.fee]
      pl == [quantity |-> kIn.quantity, side |-> kIn.side, entryPrice |-> kIn.entryPrice,
             stopLoss |-> Undef, targetPrice |-> Undef]
      held == openPosition(resetSim(cfg), cfg, WarmupBars, pl)
      after == closePosition(held, cfg, WarmupBars + 1, kIn.exitPrice, "END")
      trade == after.trades[Len(after.trades)]
  IN  /\ kPc = "call"
      /\ kIn.side = "LONG"
      /\ held.position.open
      /\ kOut' = [pnl |-> trade.pnl, pnlPercent |-> trade.pnlPercent]
      /\ kPc' = "closed"
      /\ UNCHANGED <<kIn, plannerVars, guardVars, simVars, manageVars, rerunVars,
                     bootVars, detectVars, riskVars, machineVars, socketVars, botVars,
                     deskVars, lifeVars, bookVars>>

NextPnl ==
  \/ CalculatePnl
  \/ ClosePosition

----------------------------------------------------------------------------
(* One long position managed live and in the simulator                     *)

\* the number of prices the pair observes
MaxManageSteps == 3

\* the position is entered at BasePrice with ManageQty units
ManageQty == 100

ManagePrices ==
  {Int2Num(BasePrice - 6), Int2Num(BasePrice - 3), Int2Num(BasePrice),
   Int2Num(BasePrice + 2), Int2Num(BasePrice + 5), Int2Num(BasePrice + 12)}

\* the plans the position is opened from: a stop and a target wider than
\* the risk limits, a stop and a target inside them, and no stop
ManagePlans ==
  {[side |-> "LONG", entryPrice |-> Int2Num(BasePrice), quantity |-> Int2Num(ManageQty),
    stopLoss |-> sl, targetPrice |-> tp] :
     <<sl, tp>> \in {<<Int2Num(BasePrice - 4), Int2Num(BasePrice + 12)>>,
                   <<Int2Num(BasePrice - 1), Int2Num(BasePrice + 3)>>,
                   <<Undef, Int2Num(BasePrice + 3)>>}}

ManageConfigs ==
  {[BaseSimConfig EXCEPT !.beTriggerR = b] : b \in {Undef, Rat(1, 4), Rat(1, 2)}}

\* the RiskManager after setInitialEquity, with the drawdown of the day so far
ManageRisks ==
  {[initialEquity |-> BaseSimConfig.initialCapitalKrw,
    peakEquity |-> BaseSimConfig.initialCapitalKrw, tradeHistory |-> <<>>,
    dailyStats |-> [createEmptyStats EXCEPT !.maxDrawdown = dd]] :
     dd \in {Zero, NMul(BaseSimConfig.initialCapitalKrw, Rat(6, 100))}}

\* executeTrade (lines 555-563) and openPosition store the same plan
InitManage ==
  /\ mCfg \in ManageConfigs
  /\ mRisk \in ManageRisks
  /\ \E pl \in ManagePlans :
       /\ mBot = [position |-> [open |-> TRUE, side |-> pl.side, entryPrice |-> pl.entryPrice,
                                quantity |-> pl.quantity, stopLoss |-> pl.stopLoss,
                                targetPrice |-> pl.targetPrice],
                  realizedPnlToday |-> Zero, cooldowns |-> 0]
       /\ mSim = openPosition(resetSim(mCfg), mCfg, WarmupBars, pl)
  /\ mStep = 0
  /\ mPc = "run"
  /\ mFair = TRUE

IdleManage ==
  /\ mCfg = BaseSimConfig
  /\ mRisk = CHOOSE r \in ManageRisks : r.dailyStats.maxDrawdown = Zero
  /\ mBot = [position |-> NoLivePosition, realizedPnlToday |-> Zero, cooldowns |-> 0]
  /\ mSim = resetSim(mCfg)
  /\ mStep = 0
  /\ mPc = "off"
  /\ mFair = TRUE

\* the bot's managePosition and the simulator's loop body on the same price
ManageStep(price, realBalance, order) ==
  /\ mPc = "run" /\ mStep < MaxManageSteps
  /\ mBot.position.open \/ mSim.position.open
  /\ mBot' = managePosition(mBot, mRisk, price, realBalance, order).bot
  /\ mRisk' = managePosition(mBot, mRisk, price, realBalance, order).rm
  /\ mSim' = barStep(mSim, mCfg, WarmupBars + mStep + 1, price,
                     CHOOSE e \in SimExits : ~e.shouldExit, FALSE, NoTradeDecision, Zero)
  /\ mFair' = (mFair /\ (mBot.position.open => NGt(realBalance, Zero) /\ order = "ok"))
  /\ mStep' = mStep + 1
  /\ UNCHANGED <<mCfg, mPc, plannerVars, guardVars, simVars, pnlVars, rerunVars,
                 bootVars, detectVars, riskVars, machineVars, socketVars, botVars,
                 deskVars, lifeVars, bookVars>>

NextManage ==
  \E p \in ManagePrices, b \in {Zero, Int2Num(ManageQty)}, o \in {"ok", "invalid", "fail"} :
    ManageStep(p, b, o)

----------------------------------------------------------------------------

(* Repeated runs of runRange on one simulator                              *)

\* the runs use series of WarmupBars + RerunBars candles: the "first" run
\* is made on the new simulator and recorded, the "other" run is made on the
\* last bar of another series, the run "again" is given the recorded series
RerunBars == 2

NextRun(r) ==
  CASE r = "none" -> "first"
    [] r = "first" -> "other"
    [] OTHER -> "again"

\* what a bar gives: its close, the exit provider's answer, whether a
\* volatility signal is detected and the decision provider's answer
RerunInputs ==
  [price : SimPrices \ {Int2Num(80)}, exit : SimExits, signal : BOOLEAN,
   decision : {NoTradeDecision, [NoTradeDecision EXCEPT !.shouldTrade = TRUE]}]

\* the constructed simulator has returned nothing
IdleRerun ==
  /\ rTape = <<>>
  /\ rResults = <<>>
  /\ rRuns = "none"

\* lines 217-220: the forced close at the end of the range
closeAtEnd(sm, cfg, end, lastClose) ==
  IF sm.position.open THEN closePosition(sm, cfg, end - 1, lastClose, "END") ELSE sm

\* runRange(candles, startIdx, endIdxExclusive, ...) up to the loop, on a new
\* or on a used simulator
RerunStart(startIdx, endIdxExclusive) ==
  /\ sPc \in {"idle", "done"} /\ rRuns # "again"
  /\ (NextRun(rRuns) = "other") = (startIdx > WarmupBars)
  /\ sim' = reset(sim, sCfg)
  /\ sI' = Max2(startIdx, WarmupBars)
  /\ sEnd' = Min2(endIdxExclusive, WarmupBars + RerunBars)
  /\ sPc' = "loop"
  /\ rRuns' = NextRun(rRuns)
  /\ UNCHANGED <<sCfg, sLastClose, rTape, rResults, plannerVars, guardVars, pnlVars,
                 manageVars, bootVars, detectVars, riskVars, machineVars, socketVars,
                 botVars, deskVars, lifeVars, bookVars>>

\* one iteration; the last run is given what the first run was given, and a
\* provider that is not asked has no answer to vary
RerunBar(in) ==
  /\ sPc = "loop" /\ sI < sEnd
  /\ IF rRuns = "again" THEN in = rTape[sI - WarmupBars + 1]
     ELSE IF sim.position.open THEN ~in.signal /\ in.decision = NoTradeDecision
     ELSE ~in.exit.shouldExit
  /\ sim' = barStep(sim, sCfg, sI, in.price, in.exit, in.signal, in.decision,
                    SimAtr(in.price))
  /\ sI' = sI + 1
  /\ sLastClose' = in.price
  /\ rTape' = IF rRuns = "first" THEN Append(rTape, in) ELSE rTape
  /\ UNCHANGED <<sCfg, sPc, sEnd, rResults, rRuns, plannerVars, guardVars, pnlVars,
                 manageVars, bootVars, detectVars, riskVars, machineVars, socketVars,
                 botVars, deskVars, lifeVars, bookVars>>

\* the end of runRange: the forced close and the result returned
RerunEnd ==
  /\ sPc = "loop" /\ sI >= sEnd
  /\ sim' = closeAtEnd(sim, sCfg, sEnd, sLastClose)
  /\ rResults' = Append(rResults, buildResult(closeAtEnd(sim, sCfg, sEnd, sLastClose), sCfg))
  /\ sPc' = "done"
  /\ UNCHANGED <<sCfg, sI, sEnd, sLastClose, rTape, rRuns, plannerVars, guardVars, pnlVars,
                 manageVars, bootVars, detectVars, riskVars, machineVars, socketVars,
                 botVars, deskVars, lifeVars, bookVars>>

NextRerun ==
  \/ \E st \in {0, WarmupBars + RerunBars - 1} : RerunStart(st, WarmupBars + RerunBars)
  \/ \E in \in RerunInputs : RerunBar(in)
  \/ RerunEnd

----------------------------------------------------------------------------

(* One call of bootstrapExpectancyCI                                       *)

\* the R-multiples of n trades of which the first w gained 1.5 R and the
\* others lost 1 R
RList(n, w) == [j \in 1..n |-> IF j <= w THEN Rat(3, 2) ELSE Int2Num(-1)]

BootLists ==
  {RList(n, w) : n \in {MinSample - 1, MinSample, MinSample + 1}, w \in {0, 5}}

\* the draws of one resampling, as one-based indices: the first k draws
\* take one trade, the others another trade
PickSeqs(n) ==
  {[j \in 1..n |-> IF j <= k THEN a ELSE b] : k \in 0..n, a \in {1, n}, b \in {1, n}}

InitBoot ==
  /\ bIn \in BootLists
  /\ bPc = "call"
  /\ bI = 0
  /\ bExp = <<>>
  /\ bOut = NoCI

IdleBoot ==
  /\ bIn = <<>>
  /\ bPc = "off"
  /\ bI = 0
  /\ bExp = <<>>
  /\ bOut = NoCI

\* lines 208-212: the length test
BootCall ==
  /\ bPc = "call"
  /\ IF Len(bIn) < MinSample
     THEN bPc' = "done" /\ bOut' = Sentinel
     ELSE bPc' = "loop" /\ bOut' = bOut
  /\ UNCHANGED <<bIn, bI, bExp, plannerVars, guardVars, simVars, pnlVars, manageVars,
                 rerunVars, detectVars, riskVars, machineVars, socketVars, botVars,
                 deskVars, lifeVars, bookVars>>

\* lines 214-222: one resampling
BootResample(idxs) ==
  /\ bPc = "loop" /\ bI < Iterations
  /\ bExp' = Append(bExp, sampleMean(bIn, idxs))
  /\ bI' = bI + 1
  /\ UNCHANGED <<bIn, bPc, bOut, plannerVars, guardVars, simVars, pnlVars, manageVars,
                 rerunVars, detectVars, riskVars, machineVars, socketVars, botVars,
                 deskVars, lifeVars, bookVars>>

\* lines 224-235: the sort and the percentiles
BootReturn ==
  /\ bPc = "loop" /\ bI >= Iterations
  /\ bOut' = percentiles(bExp, Iterations)
  /\ bPc' = "done"
  /\ UNCHANGED <<bIn, bI, bExp, plannerVars, guardVars, simVars, pnlVars, manageVars,
                 rerunVars, detectVars, riskVars, machineVars, socketVars, botVars,
                 deskVars, lifeVars, bookVars>>

NextBoot ==
  \/ BootCall
  \/ \E idxs \in PickSeqs(Len(bIn)) : BootResample(idxs)
  \/ BootReturn

----------------------------------------------------------------------------

(* detectVolatilitySignalAt on a flat series with one jump                 *)

\* the series has SeriesLen candles at FlatPrice; the candle JumpBar closes
\* JumpPct percent higher
SeriesLen == 40
JumpBar == 35
FlatPrice == 100
JumpPct == 3

\* candle k starts at minute k
FlatCandle(k) ==
  [has |-> TRUE, timestamp |-> k * MinuteMs, open |-> Int2Num(FlatPrice),
   high |-> Int2Num(FlatPrice), low |-> Int2Num(FlatPrice), close |-> Int2Num(FlatPrice),
   volume |-> Int2Num(10)]

\* the series whose jump candle reaches high
JumpSeries(high) ==
  [k \in 0..(SeriesLen - 1) |->
     IF k = JumpBar
     THEN [FlatCandle(k) EXCEPT !.high = high,
                                !.close = NMul(Int2Num(FlatPrice), Rat(100 + JumpPct, 100))]
     ELSE FlatCandle(k)]

DetectSeries ==
  {JumpSeries(NMul(Int2Num(FlatPrice), Rat(100 + JumpPct + d, 100))) : d \in {0, 1}}

DetectThresholds ==
  [atrMultiplier : {Rat(1, 10), Rat(3, 2)},
   priceSurgePct : {Rat(15, 1000), Rat(5, 100)},
   volumeSpikeMultiplier : {Rat(2, 5), Rat(1, 2), Rat(6, 5), Int2Num(2)}]

InitDetect ==
  /\ dCandles \in DetectSeries
  /\ dTh \in DetectThresholds
  /\ dI = 0
  /\ dPc = "call"
  /\ dOut = NoCandidate

IdleDetect ==
  /\ dCandles = <<>>
  /\ dTh = CHOOSE t \in DetectThresholds : TRUE
  /\ dI = 0
  /\ dPc = "off"
  /\ dOut = NoCandidate

\* detectVolatilitySignalAt(candles, thresholds, i) for some index i
DetectAt ==
  /\ dPc = "call"
  /\ \E i \in 0..(SeriesLen - 1) :
       /\ dI' = i
       /\ dOut' = detectVolatilitySignalAt(dCandles, dTh, i)
  /\ dPc' = "done"
  /\ UNCHANGED <<dCandles, dTh, plannerVars, guardVars, simVars, pnlVars, manageVars,
                 rerunVars, bootVars, riskVars, machineVars, socketVars, botVars,
                 deskVars, lifeVars, bookVars>>

----------------------------------------------------------------------------

----------------------------------------------------------------------------
(* planOrder on a 1,000,000 KRW account risking 1% per trade              *)

\* the account, the market price and the stop 2% below the entry
ScenarioEquity == Int2Num(1000000)
ScenarioPrice == Int2Num(100000)
ScenarioLimitPrice == Int2Num(50000)

\* LONG proposals of confidence 100 at the market price or at a limit price,
\* with the stop left to the planner or given 2% below the entry
ScenarioDecisions ==
  {[shouldTrade |-> TRUE, side |-> "LONG", confidence |-> Int2Num(100),
    entryPrice |-> e[1], stopLoss |-> e[2], targetPrice |-> Undef] :
     e \in {<<Undef, Undef>>,
            <<Undef, NMul(ScenarioPrice, Rat(49, 50))>>,
            <<ScenarioLimitPrice, Undef>>,
            <<ScenarioLimitPrice, NMul(ScenarioLimitPrice, Rat(49, 50))>>}}

\* cash below the equity is value held in other symbols; posQty is the
\* quantity already held of the planned symbol
ScenarioPortfolios ==
  [totalEquityKrw : {ScenarioEquity},
   cashKrw : {ScenarioEquity, Int2Num(500000), Int2Num(400000)},
   posQty : {Undef, One},
   realizedPnlTodayPct : {Zero}]

ScenarioPolicies ==
  [riskPerTradePct : {Rat(1, 100)},
   maxPositionPctPerSymbol : {Rat(1, 5), One},
   maxTotalExposurePct : {Rat(4, 5), One},
   maxDailyLossPct : {Rat(1, 20)},
   minNotionalKrw : {Int2Num(5000), Int2Num(20000)},
   maxNotionalKrw : {Int2Num(2000000), Int2Num(300000)},
   fallbackStopLossPct : {Rat(1, 50)}]

ScenarioInputs ==
  [risk : ScenarioPolicies, decision : ScenarioDecisions, price : {ScenarioPrice},
   portfolio : ScenarioPortfolios, riskScale : {One},
   customSlTp : {x \in CustomSlTps : ~x.present \/ x.sl = Rat(1, 50)}]

InitScenario ==
  /\ pIn \in ScenarioInputs
  /\ pPc = "call"
  /\ plan = NoPlan

----------------------------------------------------------------------------
(* planOrder on a small account                                            *)

\* proposals of both sides with the stop left to the planner, given on
\* either side of the price or given far below it, and with the target left
\* to the planner or given on either side
FloorDecisions ==
  [shouldTrade : {TRUE},
   side : {"LONG", "SHORT"},
   confidence : {Int2Num(100), Int2Num(50)},
   entryPrice : {Undef},
   stopLoss : {Undef, Int2Num(BasePrice - 2), Int2Num(BasePrice + 2), Rat(1, 100)},
   targetPrice : {Undef, Int2Num(BasePrice + 4), Int2Num(BasePrice - 4)}]

FloorPortfolios ==
  [totalEquityKrw : {Int2Num(BaseEquity)},
   cashKrw : {Int2Num(BaseEquity), Int2Num(30)},
   posQty : {Undef, Int2Num(2)},
   realizedPnlTodayPct : {Zero}]

FloorPolicies ==
  [riskPerTradePct : {Rat(1, 100)},
   maxPositionPctPerSymbol : {Rat(1, 5), One},
   maxTotalExposurePct : {Rat(4, 5)},
   maxDailyLossPct : {Rat(1, 20)},
   minNotionalKrw : {Int2Num(50), Int2Num(4)},
   maxNotionalKrw : {Int2Num(BaseEquity), Int2Num(40)},
   fallbackStopLossPct : {Rat(1, 200)}]

FloorInputs ==
  [risk : FloorPolicies, decision : FloorDecisions, price : {Int2Num(BasePrice)},
   portfolio : FloorPortfolios, riskScale : {Rat(1, 2), One},
   customSlTp : {x \in CustomSlTps : ~x.present \/ x.sl = Rat(1, 50)}]

InitFloor ==
  /\ pIn \in FloorInputs
  /\ pPc = "call"
  /\ plan = NoPlan

----------------------------------------------------------------------------
(* detectVolatilitySignalAt on a series that rises and then dips           *)

\* a candle that opens at open, closes at close and trades volume
MoveCandle(k, open, close, volume) ==
  [has |-> TRUE, timestamp |-> k * MinuteMs, open |-> Int2Num(open),
   high |-> Int2Num(Max2(open, close)), low |-> Int2Num(Min2(open, close)),
   close |-> Int2Num(close), volume |-> Int2Num(volume)]

\* flat at 100 up to bar 33, a rise to 110 on bar 34, flat until a dip to 105
\* on bar 37 that trades dipVolume, flat afterwards
DipSeries(dipVolume) ==
  [k \in 0..(SeriesLen - 1) |->
     IF k < 34 THEN MoveCandle(k, 100, 100, 10)
     ELSE IF k = 34 THEN MoveCandle(k, 100, 110, 10)
     ELSE IF k < 37 THEN MoveCandle(k, 110, 110, 10)
     ELSE IF k = 37 THEN MoveCandle(k, 110, 105, dipVolume)
     ELSE MoveCandle(k, 105, 105, 10)]

InitTrend ==
  /\ dCandles \in {DipSeries(v) : v \in {10, 30}}
  /\ dTh \in DetectThresholds
  /\ dI = 0
  /\ dPc = "call"
  /\ dOut = NoCandidate

----------------------------------------------------------------------------
(* RiskManager driven by its callers                                       *)

\* at most MaxRiskCalls calls are made on the manager
MaxRiskCalls == 4

\* the position asked about: one unit long from BasePrice
RiskPosition ==
  [open |-> TRUE, side |-> "LONG", entryPrice |-> Int2Num(BasePrice), quantity |-> One,
   stopLoss |-> Undef, targetPrice |-> Undef]

\* a close of the position that made pnl
RiskResult(pnl) ==
  [side |-> "LONG", entryPrice |-> Int2Num(BasePrice), exitPrice |-> Int2Num(BasePrice),
   quantity |-> One, pnl |-> pnl, pnlPercent |-> Zero, exitReason |-> "SIGNAL"]

NoAnswer == [action |-> "none", reason |-> "none"]

InitRisk ==
  /\ rmSt = newRiskManager
  /\ rmOut = NoAnswer
  /\ rmPrice = Undef
  /\ rmN = 0

IdleRisk ==
  /\ rmSt = newRiskManager
  /\ rmOut = NoAnswer
  /\ rmPrice = Undef
  /\ rmN = MaxRiskCalls

\* setInitialEquity(equity)
RmSetInitialEquity(equity) ==
  /\ rmN < MaxRiskCalls
  /\ rmSt' = setInitialEquity(rmSt, equity)
  /\ rmOut' = NoAnswer
  /\ rmN' = rmN + 1
  /\ UNCHANGED <<rmPrice, plannerVars, guardVars, simVars, pnlVars, manageVars, rerunVars,
                 bootVars, detectVars, machineVars, socketVars, botVars, deskVars,
                 lifeVars, bookVars>>

\* updateEquity(currentEquity)
RmUpdateEquity(currentEquity) ==
  /\ rmN < MaxRiskCalls
  /\ rmSt' = riskUpdateEquity(rmSt, currentEquity)
  /\ rmOut' = NoAnswer
  /\ rmN' = rmN + 1
  /\ UNCHANGED <<rmPrice, plannerVars, guardVars, simVars, pnlVars, manageVars, rerunVars,
                 bootVars, detectVars, machineVars, socketVars, botVars, deskVars,
                 lifeVars, bookVars>>

\* recordTrade(result)
RmRecordTrade(pnl) ==
  /\ rmN < MaxRiskCalls
  /\ rmSt' = recordTrade(rmSt, RiskResult(pnl))
  /\ rmOut' = NoAnswer
  /\ rmN' = rmN + 1
  /\ UNCHANGED <<rmPrice, plannerVars, guardVars, simVars, pnlVars, manageVars, rerunVars,
                 bootVars, detectVars, machineVars, socketVars, botVars, deskVars,
                 lifeVars, bookVars>>

\* checkPositionRisk(position, currentPrice)
RmCheckPositionRisk(currentPrice) ==
  /\ rmN < MaxRiskCalls
  /\ rmOut' = checkPositionRisk(rmSt, RiskPosition, currentPrice)
  /\ rmPrice' = currentPrice
  /\ rmN' = rmN + 1
  /\ UNCHANGED <<rmSt, plannerVars, guardVars, simVars, pnlVars, manageVars, rerunVars,
                 bootVars, detectVars, machineVars, socketVars, botVars, deskVars,
                 lifeVars, bookVars>>

NextRisk ==
  \/ \E e \in {Int2Num(BaseEquity)} : RmSetInitialEquity(e)
  \/ \E e \in {Int2Num(BaseEquity - 100), Int2Num(BaseEquity + 100)} : RmUpdateEquity(e)
  \/ \E pnl \in {Int2Num(-60), Int2Num(-30), Int2Num(40)} : RmRecordTrade(pnl)
  \/ \E p \in {Int2Num(BasePrice - 3), Int2Num(BasePrice), Int2Num(BasePrice + 5)} :
       RmCheckPositionRisk(p)

----------------------------------------------------------------------------
(* StateMachine                                                            *)

BotStates == {"IDLE", "MONITORING", "ANALYZING", "TRADING", "COOLING_DOWN", "ERROR"}

validTransitions ==
  {<<"IDLE", "MONITORING">>, <<"MONITORING", "ANALYZING">>, <<"MONITORING", "IDLE">>,
   <<"ANALYZING", "TRADING">>, <<"ANALYZING", "MONITORING">>, <<"TRADING", "COOLING_DOWN">>,
   <<"TRADING", "ERROR">>, <<"COOLING_DOWN", "MONITORING">>, <<"ERROR", "IDLE">>,
   <<"ERROR", "MONITORING">>}

\* trimHistory: a history of more than HistoryCap entries keeps its last HistoryKeep
HistoryCap == 100
HistoryKeep == 50

\* canTransition(to) in state `state`
canTransition(state, to) == <<state, to>> \in validTransitions

\* trimHistory with nothing cut
trimHistory_keepAll(history) == history

trimHistory(history) ==
  IF Len(history) > HistoryCap
  THEN SubSeq(history, Len(history) - HistoryKeep + 1, Len(history))
  ELSE history

\* notifyListeners(state, prev): the invocations made, in order
notifyListeners(listeners, state, prev) ==
  [k \in 1..Len(listeners) |-> [listener |-> listeners[k], state |-> state, prev |-> prev]]

\* at most MaxMachineCalls calls are made on the machine, by MaxListeners callers
MaxMachineCalls == 3
MaxListeners == 1

\* a machine that went IDLE -> MONITORING -> IDLE ... HistoryCap times
CycledHistory ==
  [k \in 1..HistoryCap |->
     [state |-> IF k % 2 = 1 THEN "MONITORING" ELSE "IDLE", timestamp |-> 0]]

InitMachine ==
  /\ smState = "IDLE"
  /\ smHistory \in {<<>>, CycledHistory}
  /\ smListeners = <<>>
  /\ smNow = 0
  /\ smOp = "none"
  /\ smTo = "none"
  /\ smRet = "none"
  /\ smCalls = <<>>

IdleMachine ==
  /\ smState = "IDLE"
  /\ smHistory = <<>>
  /\ smListeners = <<>>
  /\ smNow = MaxMachineCalls
  /\ smOp = "none"
  /\ smTo = "none"
  /\ smRet = "none"
  /\ smCalls = <<>>

\* transition(to), called when the clock reads now
Transition(to, now) ==
  /\ smNow < MaxMachineCalls
  /\ smOp' = "transition"
  /\ smTo' = to
  /\ smNow' = now
  /\ IF ~canTransition(smState, to)
     THEN /\ smRet' = "false"
          /\ smCalls' = <<>>
          /\ UNCHANGED <<smState, smHistory>>
     ELSE /\ smState' = to
          /\ smHistory' = trimHistory(Append(smHistory, [state |-> to, timestamp |-> now]))
          /\ smCalls' = notifyListeners(smListeners, to, smState)
          /\ smRet' = "true"
  /\ UNCHANGED <<smListeners, plannerVars, guardVars, simVars, pnlVars, manageVars,
                 rerunVars, bootVars, detectVars, riskVars, socketVars, botVars,
                 deskVars, lifeVars, bookVars>>

\* forceState(state), called when the clock reads now
ForceState(state, now) ==
  /\ smNow < MaxMachineCalls
  /\ smOp' = "forceState"
  /\ smTo' = state
  /\ smNow' = now
  /\ smState' = state
  /\ smHistory' = Append(smHistory, [state |-> state, timestamp |-> now])
  /\ smCalls' = notifyListeners(smListeners, state, smState)
  /\ smRet' = "none"
  /\ UNCHANGED <<smListeners, plannerVars, guardVars, simVars, pnlVars, manageVars,
                 rerunVars, bootVars, detectVars, riskVars, socketVars, botVars,
                 deskVars, lifeVars, bookVars>>

\* onStateChange(listener)
OnStateChange(listener) ==
  /\ smNow < MaxMachineCalls
  /\ smOp' = "onStateChange"
  /\ smTo' = "none"
  /\ smNow' = smNow + 1
  /\ smListeners' = Append(smListeners, listener)
  /\ smCalls' = <<>>
  /\ smRet' = "none"
  /\ UNCHANGED <<smState, smHistory, plannerVars, guardVars, simVars, pnlVars, manageVars,
                 rerunVars, bootVars, detectVars, riskVars, socketVars, botVars,
                 deskVars, lifeVars, bookVars>>

NextMachine ==
  \/ \E to \in BotStates : Transition(to, smNow + 1)
  \/ \E state \in {"TRADING", "ERROR", "ANALYZING"} : ForceState(state, smNow + 1)
  \/ \E listener \in 1..MaxListeners : OnStateChange(listener)

----------------------------------------------------------------------------
(* UpbitWebSocket: connecting and reconnecting one socket                  *)

maxReconnectAttempts == 10

\* at most MaxSocketCalls calls of connect() and disconnect() are made
MaxSocketCalls == 2

\* the fields after construction; sock is the state of the socket object whose
\* handlers are attached ("null" when there is none), promise and awaiter are
\* the promise of the latest connectPublic / connectPrivate call and who awaits
\* it, timers counts the reconnect timeouts that are pending
newSocketClient(type) ==
  [type |-> type, sock |-> "null", attempts |-> 0, reconnecting |-> FALSE, timers |-> 0,
   ping |-> FALSE, promise |-> "none", awaiter |-> "none", errorEmitted |-> FALSE,
   exit |-> "no"]

\* connectPublic() / connectPrivate(): the old socket loses its listeners and
\* is closed, a new one is created and starts connecting
connectSocket(w, awaiter) ==
  [w EXCEPT !.sock = "connecting", !.promise = "pending", !.awaiter = awaiter]

\* the 'open' handler
onOpen(w) ==
  [w EXCEPT !.sock = "open",
            !.ping = IF w.type = "public" THEN TRUE ELSE @,
            !.attempts = 0,
            !.reconnecting = FALSE,
            !.promise = IF @ = "pending" THEN "resolved" ELSE @]

\* the 'error' handler: rejects only when no reconnect is in progress
onError(w) ==
  IF ~w.reconnecting /\ w.promise = "pending" THEN [w EXCEPT !.promise = "rejected"] ELSE w

\* scheduleReconnect(type)
scheduleReconnect(w) ==
  IF w.reconnecting THEN w
  ELSE IF w.attempts >= maxReconnectAttempts
  THEN [w EXCEPT !.errorEmitted = TRUE, !.exit = "scheduled"]
  ELSE [w EXCEPT !.attempts = @ + 1, !.reconnecting = TRUE, !.timers = @ + 1]

\* handlePublicClose() / handlePrivateClose()
handleClose(w) ==
  scheduleReconnect([w EXCEPT !.ping = IF w.type = "public" THEN FALSE ELSE @])

\* the 'close' handler: handles the close only when no reconnect is in progress
onClose(w) ==
  LET closed == [w EXCEPT !.sock = "closed"]
  IN  IF ~closed.reconnecting THEN handleClose(closed) ELSE closed

\* the catch block of the reconnect timeout, run when the promise it awaits
\* has been rejected
reconnectCatch(w) ==
  IF w.promise = "rejected" /\ w.awaiter = "timer"
  THEN [w EXCEPT !.reconnecting = FALSE, !.promise = "handled"]
  ELSE w

\* disconnect()
disconnect(w) ==
  [w EXCEPT !.ping = FALSE, !.reconnecting = FALSE, !.sock = "null"]

InitSocket ==
  /\ ws \in {newSocketClient(type) : type \in {"public", "private"}}
  /\ wsCalls = 0

IdleSocket ==
  /\ ws = newSocketClient("public")
  /\ wsCalls = MaxSocketCalls

\* connect(), as far as the followed socket goes
SocketConnect ==
  /\ ws.exit # "exited"
  /\ wsCalls < MaxSocketCalls
  /\ ws' = connectSocket(ws, "caller")
  /\ wsCalls' = wsCalls + 1
  /\ UNCHANGED <<plannerVars, guardVars, simVars, pnlVars, manageVars, rerunVars, bootVars,
                 detectVars, riskVars, machineVars, botVars, deskVars, lifeVars, bookVars>>

\* disconnect()
SocketDisconnect ==
  /\ ws.exit # "exited"
  /\ wsCalls < MaxSocketCalls
  /\ ws' = disconnect(ws)
  /\ wsCalls' = wsCalls + 1
  /\ UNCHANGED <<plannerVars, guardVars, simVars, pnlVars, manageVars, rerunVars, bootVars,
                 detectVars, riskVars, machineVars, botVars, deskVars, lifeVars, bookVars>>

\* a reconnect timeout fires and calls connectPublic() / connectPrivate()
ReconnectTimer ==
  /\ ws.exit # "exited"
  /\ ws.timers > 0
  /\ ws' = connectSocket([ws EXCEPT !.timers = @ - 1], "timer")
  /\ UNCHANGED <<wsCalls, plannerVars, guardVars, simVars, pnlVars, manageVars, rerunVars,
                 bootVars, detectVars, riskVars, machineVars, botVars, deskVars,
                 lifeVars, bookVars>>

\* the connecting socket opens
SocketOpens ==
  /\ ws.exit # "exited"
  /\ ws.sock = "connecting"
  /\ ws' = onOpen(ws)
  /\ UNCHANGED <<wsCalls, plannerVars, guardVars, simVars, pnlVars, manageVars, rerunVars,
                 bootVars, detectVars, riskVars, machineVars, botVars, deskVars,
                 lifeVars, bookVars>>

\* the socket fails: 'error' is emitted, and 'close' either in the same turn
\* (before the rejected promise's catch block runs) or in a later one
SocketErrors(closeInSameTurn) ==
  /\ ws.exit # "exited"
  /\ ws.sock \in {"connecting", "open"}
  /\ ws' = IF closeInSameTurn
           THEN reconnectCatch(onClose(onError(ws)))
           ELSE [reconnectCatch(onError(ws)) EXCEPT !.sock = "errored"]
  /\ UNCHANGED <<wsCalls, plannerVars, guardVars, simVars, pnlVars, manageVars, rerunVars,
                 bootVars, detectVars, riskVars, machineVars, botVars, deskVars,
                 lifeVars, bookVars>>

\* 'close' is emitted: an open socket is closed by the peer, or a failed one
\* finishes closing
SocketCloses ==
  /\ ws.exit # "exited"
  /\ ws.sock \in {"open", "errored"}
  /\ ws' = onClose(ws)
  /\ UNCHANGED <<wsCalls, plannerVars, guardVars, simVars, pnlVars, manageVars, rerunVars,
                 bootVars, detectVars, riskVars, machineVars, botVars, deskVars,
                 lifeVars, bookVars>>

\* the timeout set at the attempt limit fires: process.exit(1)
ExitTimer ==
  /\ ws.exit = "scheduled"
  /\ ws' = [ws EXCEPT !.exit = "exited"]
  /\ UNCHANGED <<wsCalls, plannerVars, guardVars, simVars, pnlVars, manageVars, rerunVars,
                 bootVars, detectVars, riskVars, machineVars, botVars, deskVars,
                 lifeVars, bookVars>>

NextSocket ==
  \/ SocketConnect
  \/ SocketDisconnect
  \/ ReconnectTimer
  \/ SocketOpens
  \/ \E closeInSameTurn \in BOOLEAN : SocketErrors(closeInSameTurn)
  \/ SocketCloses
  \/ ExitTimer

\* timeouts fire, a connecting socket opens or fails, and a failed socket closes
FairSocket ==
  /\ WF_vars(ReconnectTimer)
  /\ WF_vars(ExitTimer)
  /\ WF_vars(SocketOpens \/ \E closeInSameTurn \in BOOLEAN : SocketErrors(closeInSameTurn))
  /\ WF_vars(ws.sock = "errored" /\ SocketCloses)

----------------------------------------------------------------------------
(* runRange when the planned notional is all the cash, or the fee is high   *)

\* a policy whose caps leave the cash as the binding limit
AllInPolicy ==
  [SimPolicy EXCEPT !.riskPerTradePct = Rat(1, 20), !.maxPositionPctPerSymbol = One,
                    !.maxTotalExposurePct = One, !.maxNotionalKrw = Int2Num(10000000)]

TightConfigs ==
  {[BaseSimConfig EXCEPT !.riskPolicy = AllInPolicy],
   [BaseSimConfig EXCEPT !.feeRate = Rat(1, 50)],
   [BaseSimConfig EXCEPT !.feeRate = Zero]}

InitTight ==
  /\ sCfg \in TightConfigs
  /\ sim = resetSim(sCfg)
  /\ sPc = "idle"
  /\ sI = 0
  /\ sEnd = 0
  /\ sLastClose = Undef

----------------------------------------------------------------------------
(* One GuardrailEngine shared by several symbols                            *)

\* MaxSymbols symbols trade through the engine
MaxSymbols == 2

\* a context that passes the market-quality tests and one that is stale
DeskShapes == {Shape(7, FALSE, 0), Shape(1, FALSE, 0)}

InitDesk ==
  /\ dkOpen = {}
  /\ dkAdmitted = 0

IdleDesk ==
  /\ dkOpen = {}
  /\ dkAdmitted = MaxSymbols

\* a flat symbol calls check(ctx) and opens its trade when the answer is allow
DeskCheck(s, sh) ==
  LET ctx == MkCtx(sh, nowMs)
      st == ensureDayReset(gState, nowMs)
      newDay == st # gState
      d == checkDecision(st, ctx)
      before == IF newDay THEN 0 ELSE dkAdmitted
  IN  /\ s \notin dkOpen
      /\ gState' = checkState(st, ctx)
      /\ gRet' = d
      /\ closedToday' = IF newDay THEN <<>> ELSE closedToday
      /\ gArm' = IF d = "CONSECUTIVE_SL" THEN "armed"
                 ELSE IF newDay THEN "none" ELSE gArm
      /\ dkOpen' = IF d = "ALLOW" THEN dkOpen \cup {s} ELSE dkOpen
      /\ dkAdmitted' = IF d = "ALLOW" THEN before + 1 ELSE before
      /\ UNCHANGED <<nowMs, plannerVars, simVars, pnlVars, manageVars, rerunVars,
                     bootVars, detectVars, riskVars, machineVars, socketVars, botVars,
                     lifeVars, bookVars>>

\* a symbol's trade closes and it calls onTradeClosed(trade)
DeskClose(s, trade) ==
  LET st == ensureDayReset(gState, nowMs)
      newDay == st # gState
  IN  /\ s \in dkOpen
      /\ st.tradesToday < MaxCloses
      /\ gState' = applyTradeClosed(st, trade)
      /\ gRet' = "none"
      /\ closedToday' = Append(IF newDay THEN <<>> ELSE closedToday, trade.exitReason)
      /\ gArm' = IF newDay \/ gArm = "none" THEN "none" ELSE "dirty"
      /\ dkOpen' = dkOpen \ {s}
      /\ dkAdmitted' = IF newDay THEN 0 ELSE dkAdmitted
      /\ UNCHANGED <<nowMs, plannerVars, simVars, pnlVars, manageVars, rerunVars,
                     bootVars, detectVars, riskVars, machineVars, socketVars, botVars,
                     lifeVars, bookVars>>

NextDesk ==
  \/ \E s \in 1..MaxSymbols, sh \in DeskShapes : DeskCheck(s, sh)
  \/ \E s \in 1..MaxSymbols, t \in ClosedTrades : DeskClose(s, t)
  \/ Tick

----------------------------------------------------------------------------
(* TradingBot.start, stop, tick and the tick-error recovery timer           *)
(* (src/unnamed/part_006 lines 64-120)                                     *)
(*                                                                         *)
(* life.state is the state machine's state; life.intervalId tells whether *)
(* this.intervalId holds a timer and life.intervals counts the interval    *)
(* timers alive; life.starting counts the start() calls waiting for        *)
(* initializeRiskManager, life.ticks the ticks waiting in Promise.all and  *)
(* life.timers the recovery timers set by the catch of tick and not yet    *)
(* fired.  life.stopped records that stop() has returned and no start()    *)
(* has been called or has resumed since.                                   *)

MaxLifeCalls == 3
MaxInFlight == 2

newLife ==
  [state |-> "IDLE", intervalId |-> FALSE, intervals |-> 0, starting |-> 0,
   ticks |-> 0, timers |-> 0, stopped |-> FALSE, calls |-> 0]

\* stateMachine.transition(to) on the life cycle's state
lifeTransition(l, to) ==
  IF canTransition(l.state, to) THEN [l EXCEPT !.state = to] ELSE l

\* the catch of tick: forceState(ERROR) and a recovery timer
tickCatch(l) ==
  [l EXCEPT !.state = "ERROR", !.timers = l.timers + 1, !.ticks = l.ticks - 1]

\* stop(): clearInterval(this.intervalId), forceState(IDLE)
stopBot(l) ==
  [l EXCEPT !.intervals = IF l.intervalId THEN l.intervals - 1 ELSE l.intervals,
            !.intervalId = FALSE,
            !.state = "IDLE",
            !.stopped = TRUE,
            !.calls = l.calls + 1]

InitLife == life = newLife

IdleLife == life = [newLife EXCEPT !.calls = MaxLifeCalls]

\* start() is called and waits for initializeRiskManager
LifeStart ==
  /\ life.calls < MaxLifeCalls
  /\ life' = [life EXCEPT !.starting = life.starting + 1, !.stopped = FALSE,
                          !.calls = life.calls + 1]
  /\ UNCHANGED <<plannerVars, guardVars, simVars, pnlVars, manageVars, rerunVars,
                 bootVars, detectVars, riskVars, machineVars, socketVars, botVars,
                 deskVars, bookVars>>

\* start() resumes: transition(MONITORING), setInterval
LifeStartResumes ==
  /\ life.starting > 0
  /\ life' = [lifeTransition(life, "MONITORING")
                EXCEPT !.starting = life.starting - 1, !.intervalId = TRUE,
                       !.intervals = life.intervals + 1, !.stopped = FALSE]
  /\ UNCHANGED <<plannerVars, guardVars, simVars, pnlVars, manageVars, rerunVars,
                 bootVars, detectVars, riskVars, machineVars, socketVars, botVars,
                 deskVars, bookVars>>

\* stop()
LifeStop ==
  /\ life.calls < MaxLifeCalls
  /\ life' = stopBot(life)
  /\ UNCHANGED <<plannerVars, guardVars, simVars, pnlVars, manageVars, rerunVars,
                 bootVars, detectVars, riskVars, machineVars, socketVars, botVars,
                 deskVars, bookVars>>

\* an interval timer fires tick(): it returns unless the state is MONITORING,
\* and otherwise waits for its processSymbol calls
LifeTickFires ==
  /\ life.intervals > 0
  /\ life.ticks + life.timers < MaxInFlight
  /\ life' = IF life.state # "MONITORING" THEN life
             ELSE [life EXCEPT !.ticks = life.ticks + 1]
  /\ UNCHANGED <<plannerVars, guardVars, simVars, pnlVars, manageVars, rerunVars,
                 bootVars, detectVars, riskVars, machineVars, socketVars, botVars,
                 deskVars, bookVars>>

\* the processSymbol calls of a tick all resolve
LifeTickResolves ==
  /\ life.ticks > 0
  /\ life' = [life EXCEPT !.ticks = life.ticks - 1]
  /\ UNCHANGED <<plannerVars, guardVars, simVars, pnlVars, manageVars, rerunVars,
                 bootVars, detectVars, riskVars, machineVars, socketVars, botVars,
                 deskVars, bookVars>>

\* a processSymbol call of a tick rejects and the catch of tick runs
LifeTickThrows ==
  /\ life.ticks > 0
  /\ life' = tickCatch(life)
  /\ UNCHANGED <<plannerVars, guardVars, simVars, pnlVars, manageVars, rerunVars,
                 bootVars, detectVars, riskVars, machineVars, socketVars, botVars,
                 deskVars, bookVars>>

\* a recovery timer fires: transition(MONITORING)
LifeRecoveryTimer ==
  /\ life.timers > 0
  /\ life' = [lifeTransition(life, "MONITORING") EXCEPT !.timers = life.timers - 1]
  /\ UNCHANGED <<plannerVars, guardVars, simVars, pnlVars, manageVars, rerunVars,
                 bootVars, detectVars, riskVars, machineVars, socketVars, botVars,
                 deskVars, bookVars>>

NextLife ==
  \/ LifeStart
  \/ LifeStartResumes
  \/ LifeStop
  \/ LifeTickFires
  \/ LifeTickResolves
  \/ LifeTickThrows
  \/ LifeRecoveryTimer

----------------------------------------------------------------------------
(* TradingBot: overlapping ticks on one symbol                             *)

\* MaxBotTicks ticks fire; the clock runs to MaxBotTime and candles arrive up
\* to timestamp MaxCandleTime; a cooldown lasts CooldownMs
MaxBotTicks == 2
MaxBotTime == 1
MaxCandleTime == 2
CooldownMs == 1

\* the riskPolicy the bot was constructed with and what the agent answers
\* when it wants to trade
BotPolicy ==
  [riskPerTradePct |-> Rat(1, 100), maxPositionPctPerSymbol |-> One,
   maxTotalExposurePct |-> Rat(4, 5), maxDailyLossPct |-> Rat(1, 20),
   minNotionalKrw |-> Int2Num(4), maxNotionalKrw |-> Int2Num(2 * BasePrice),
   fallbackStopLossPct |-> Rat(1, 200)]

BotDecision == [NoTradeDecision EXCEPT !.shouldTrade = TRUE]

\* the symbol's state after initializeSymbols() and start(), with the KRW
\* balance at the exchange
newTradingBot ==
  [position |-> NoLivePosition, cooldownUntil |-> 0, lastAnalyzedCandleTime |-> 0,
   realizedPnlToday |-> Zero, cashKrw |-> Int2Num(BaseEquity),
   risk |-> setInitialEquity(newRiskManager, Int2Num(BaseEquity))]

\* a tick that has not fired: pc is the await the tick is suspended at
IdleTick ==
  [pc |-> "idle", price |-> Undef, plan |-> NoPlan, reason |-> "none"]

\* buildPortfolioState() once getAccounts() has answered
buildPortfolioState(b) ==
  LET positionValue == IF b.position.open
                       THEN NMul(b.position.quantity, b.position.entryPrice) ELSE Zero
  IN  [totalEquityKrw |-> NAdd(b.cashKrw, positionValue), cashKrw |-> b.cashKrw,
       posQty |-> IF b.position.open THEN b.position.quantity ELSE Undef,
       realizedPnlTodayPct |-> b.realizedPnlToday]

\* enterCooldown(state)
enterCooldown(b, now) == [b EXCEPT !.cooldownUntil = now + CooldownMs]

InitBot ==
  /\ bot = newTradingBot
  /\ tk = [t \in 1..MaxBotTicks |-> IdleTick]
  /\ tbNow = 0
  /\ tbCandle = 1

IdleBot ==
  /\ bot = newTradingBot
  /\ tk = [t \in 1..MaxBotTicks |-> [IdleTick EXCEPT !.pc = "done"]]
  /\ tbNow = MaxBotTime
  /\ tbCandle = MaxCandleTime

\* the tick is over
TickDone(t) == tk' = [tk EXCEPT ![t].pc = "done"]

\* setInterval fires tick(): the machine is MONITORING; processSymbol() up to
\* its first await
TickFires(t) ==
  /\ tk[t].pc = "idle"
  /\ IF t = 1 THEN TRUE ELSE tk[t - 1].pc # "idle"
  /\ IF tbNow < bot.cooldownUntil
     THEN TickDone(t)
     ELSE tk' = [tk EXCEPT ![t].pc = "fetching"]
  /\ UNCHANGED <<bot, tbNow, tbCandle, plannerVars, guardVars, simVars, pnlVars, manageVars,
                 rerunVars, bootVars, detectVars, riskVars, machineVars, socketVars,
                 deskVars, lifeVars, bookVars>>

\* fetchLatestData() answers in processSymbol(): an open position is managed
\* up to createOrder(), otherwise a new candle with a signal starts
\* analyzeAndTrade()
FetchReturns(t, price, hasSignal) ==
  /\ tk[t].pc = "fetching"
  /\ IF bot.position.open
     THEN LET riskAction == checkPositionRisk(bot.risk, bot.position, price)
          IN  /\ tk' = IF riskAction.action # "CLOSE"
                       THEN [tk EXCEPT ![t].pc = "done"]
                       ELSE [tk EXCEPT ![t].pc = "closing", ![t].price = price,
                                       ![t].reason = riskAction.reason]
              /\ bot' = bot
     ELSE IF tbCandle <= bot.lastAnalyzedCandleTime \/ ~hasSignal
     THEN TickDone(t) /\ bot' = bot
     ELSE /\ bot' = [bot EXCEPT !.lastAnalyzedCandleTime = tbCandle]
          /\ tk' = [tk EXCEPT ![t].pc = "refetching"]
  /\ UNCHANGED <<tbNow, tbCandle, plannerVars, guardVars, simVars, pnlVars, manageVars,
                 rerunVars, bootVars, detectVars, riskVars, machineVars, socketVars,
                 deskVars, lifeVars, bookVars>>

\* fetchLatestData() answers in analyzeAndTrade(): the agent is asked
RefetchReturns(t, price) ==
  /\ tk[t].pc = "refetching"
  /\ tk' = [tk EXCEPT ![t].pc = "deciding", ![t].price = price]
  /\ UNCHANGED <<bot, tbNow, tbCandle, plannerVars, guardVars, simVars, pnlVars, manageVars,
                 rerunVars, bootVars, detectVars, riskVars, machineVars, socketVars,
                 deskVars, lifeVars, bookVars>>

\* the agent answers and the decision is logged: getAccounts() is asked when
\* the decision is to trade
AgentReturns(t, decision) ==
  /\ tk[t].pc = "deciding"
  /\ tk' = IF ~decision.shouldTrade \/ decision.side = "none"
           THEN [tk EXCEPT ![t].pc = "done"]
           ELSE [tk EXCEPT ![t].pc = "accounts"]
  /\ UNCHANGED <<bot, tbNow, tbCandle, plannerVars, guardVars, simVars, pnlVars, manageVars,
                 rerunVars, bootVars, detectVars, riskVars, machineVars, socketVars,
                 deskVars, lifeVars, bookVars>>

\* getAccounts() answers: the order is planned and, when the plan says so,
\* executePlan() submits the entry order
AccountsReturn(t) ==
  /\ tk[t].pc = "accounts"
  /\ LET orderPlan == planOrder(BotPolicy, BotDecision, tk[t].price, buildPortfolioState(bot),
                           getRiskScaleForSymbol, getVolatilityBasedSlTp(Int2Num(30)))
     IN  tk' = IF ~orderPlan.shouldExecute \/ orderPlan.side = "none"
                  \/ ~Truthy(orderPlan.quantity)
               THEN [tk EXCEPT ![t].pc = "done"]
               ELSE [tk EXCEPT ![t].pc = "entering", ![t].plan = orderPlan]
  /\ UNCHANGED <<bot, tbNow, tbCandle, plannerVars, guardVars, simVars, pnlVars, manageVars,
                 rerunVars, bootVars, detectVars, riskVars, machineVars, socketVars,
                 deskVars, lifeVars, bookVars>>

\* createOrder() of executePlan() answers: on success the position is set and
\* the trade is logged
EntryOrderReturns(t, ok) ==
  /\ tk[t].pc = "entering"
  /\ IF ok
     THEN /\ bot' = [bot EXCEPT
                       !.position = [open |-> TRUE, side |-> tk[t].plan.side,
                                     entryPrice |-> OrElse(tk[t].plan.entryPrice, tk[t].price),
                                     quantity |-> tk[t].plan.quantity,
                                     stopLoss |-> Undef, targetPrice |-> Undef],
                       !.cashKrw = NSub(@, OrElse(tk[t].plan.notionalKrw,
                                                  NMul(tk[t].plan.quantity, tk[t].price)))]
          /\ tk' = [tk EXCEPT ![t].pc = "entryLog"]
     ELSE TickDone(t) /\ bot' = bot
  /\ UNCHANGED <<tbNow, tbCandle, plannerVars, guardVars, simVars, pnlVars, manageVars,
                 rerunVars, bootVars, detectVars, riskVars, machineVars, socketVars,
                 deskVars, lifeVars, bookVars>>

\* logTrade() of executePlan() answers: on success the cooldown starts
EntryLogReturns(t, ok) ==
  /\ tk[t].pc = "entryLog"
  /\ bot' = IF ok THEN enterCooldown(bot, tbNow) ELSE bot
  /\ TickDone(t)
  /\ UNCHANGED <<tbNow, tbCandle, plannerVars, guardVars, simVars, pnlVars, manageVars,
                 rerunVars, bootVars, detectVars, riskVars, machineVars, socketVars,
                 deskVars, lifeVars, bookVars>>

\* createOrder() of managePosition() answers: on success the trade is booked
\* (reading a position that is gone throws into the catch block) and logged
CloseOrderReturns(t, ok) ==
  /\ tk[t].pc = "closing"
  /\ IF ok /\ bot.position.open
     THEN LET position == bot.position
              pnl == NMul(NSub(tk[t].price, position.entryPrice), position.quantity)
              pnlPercent == NMul(calculatePnlRatio(position, tk[t].price), Int2Num(100))
              result == [side |-> position.side, entryPrice |-> position.entryPrice,
                         exitPrice |-> tk[t].price, quantity |-> position.quantity,
                         pnl |-> pnl, pnlPercent |-> pnlPercent,
                         exitReason |-> tk[t].reason]
          IN  /\ bot' = [bot EXCEPT
                           !.realizedPnlToday = NAdd(@, NDiv(pnlPercent, Int2Num(100))),
                           !.risk = recordTrade(@, result),
                           !.cashKrw = NAdd(@, NMul(position.quantity, tk[t].price))]
              /\ tk' = [tk EXCEPT ![t].pc = "closeLog"]
     ELSE TickDone(t) /\ bot' = bot
  /\ UNCHANGED <<tbNow, tbCandle, plannerVars, guardVars, simVars, pnlVars, manageVars,
                 rerunVars, bootVars, detectVars, riskVars, machineVars, socketVars,
                 deskVars, lifeVars, bookVars>>

\* logTrade() of managePosition() answers: on success the position is cleared
\* and the cooldown starts
CloseLogReturns(t, ok) ==
  /\ tk[t].pc = "closeLog"
  /\ bot' = IF ok THEN enterCooldown([bot EXCEPT !.position = NoLivePosition], tbNow) ELSE bot
  /\ TickDone(t)
  /\ UNCHANGED <<tbNow, tbCandle, plannerVars, guardVars, simVars, pnlVars, manageVars,
                 rerunVars, bootVars, detectVars, riskVars, machineVars, socketVars,
                 deskVars, lifeVars, bookVars>>

\* the exchange closes a candle
NewCandle ==
  /\ tbCandle < MaxCandleTime
  /\ tbCandle' = tbCandle + 1
  /\ UNCHANGED <<bot, tk, tbNow, plannerVars, guardVars, simVars, pnlVars, manageVars,
                 rerunVars, bootVars, detectVars, riskVars, machineVars, socketVars,
                 deskVars, lifeVars, bookVars>>

\* time passes
TimePasses ==
  /\ tbNow < MaxBotTime
  /\ tbNow' = tbNow + 1
  /\ UNCHANGED <<bot, tk, tbCandle, plannerVars, guardVars, simVars, pnlVars, manageVars,
                 rerunVars, bootVars, detectVars, riskVars, machineVars, socketVars,
                 deskVars, lifeVars, bookVars>>

BotPrices == {Int2Num(BasePrice), Int2Num(BasePrice - 3)}

NextBot ==
  \/ \E t \in 1..MaxBotTicks : TickFires(t)
  \/ \E t \in 1..MaxBotTicks, price \in BotPrices, hasSignal \in BOOLEAN :
       FetchReturns(t, price, hasSignal)
  \/ \E t \in 1..MaxBotTicks : RefetchReturns(t, Int2Num(BasePrice))
  \/ \E t \in 1..MaxBotTicks, decision \in {NoTradeDecision, BotDecision} :
       AgentReturns(t, decision)
  \/ \E t \in 1..MaxBotTicks : AccountsReturn(t)
  \/ \E t \in 1..MaxBotTicks, ok \in BOOLEAN : EntryOrderReturns(t, ok)
  \/ \E t \in 1..MaxBotTicks, ok \in BOOLEAN : EntryLogReturns(t, ok)
  \/ \E t \in 1..MaxBotTicks, ok \in BOOLEAN : CloseOrderReturns(t, ok)
  \/ \E t \in 1..MaxBotTicks, ok \in BOOLEAN : CloseLogReturns(t, ok)
  \/ NewCandle
  \/ TimePasses
----------------------------------------------------------------------------
(* TradingBot with several symbols processed in one tick                   *)
(* (src/unnamed/part_006 lines 109-142, 155-269)                           *)
(*                                                                         *)
(* tick() starts processSymbol for every symbol and awaits them together,  *)
(* so the symbols' handlers interleave at their awaits.  bk holds what the *)
(* symbols share: the KRW balance at the exchange, and for the tick the    *)
(* balance when it fired and the sum of the notionals of the orders sent.  *)
(* sy[s] is symbol s's SymbolState with the await its handler is at.  The  *)
(* exchange fills an order the balance covers and refuses any other.       *)

Symbols == 1..MaxSymbols

\* an account of 1000 KRW with total exposure capped at 30 %, and an account
\* of 300 KRW that may be fully invested; one order is at most 200 KRW
BookConfigs ==
  <<[cashKrw |-> Int2Num(BaseEquity),
     policy |-> [BotPolicy EXCEPT !.maxTotalExposurePct = Rat(3, 10)]],
    [cashKrw |-> Int2Num(3 * BasePrice),
     policy |-> [BotPolicy EXCEPT !.riskPerTradePct = Rat(1, 20),
                                  !.maxTotalExposurePct = One]]>>

newSymbolState ==
  [pc |-> "idle", position |-> NoLivePosition, cooldown |-> FALSE,
   lastAnalyzed |-> FALSE, plan |-> NoPlan]

RECURSIVE positionValueUpTo(_, _)
\* the reduce of buildPortfolioState over the first n symbols' positions
positionValueUpTo(st, n) ==
  IF n = 0 THEN Zero
  ELSE NAdd(positionValueUpTo(st, n - 1),
            IF st[n].position.open
            THEN NMul(st[n].position.quantity, st[n].position.entryPrice)
            ELSE Zero)

\* buildPortfolioState() as symbol s's planOrder reads it, once getAccounts()
\* has answered
bookPortfolioState(b, st, s) ==
  [totalEquityKrw |-> NAdd(b.cashKrw, positionValueUpTo(st, MaxSymbols)),
   cashKrw |-> b.cashKrw,
   posQty |-> IF st[s].position.open THEN st[s].position.quantity ELSE Undef,
   realizedPnlTodayPct |-> Zero]

\* the price field of createOrder: Math.floor(plan.notionalKrw || quantity * price)
orderPrice(orderPlan, price) ==
  LET v == OrElse(orderPlan.notionalKrw, NMul(orderPlan.quantity, price))
  IN  Int2Num((v.n) \div (v.d))

InitBook ==
  /\ \E c \in 1..Len(BookConfigs) :
       bk = [cfg |-> c, cashKrw |-> BookConfigs[c].cashKrw, ticked |-> FALSE,
             cashAtTick |-> Undef, submitted |-> Zero]
  /\ sy = [s \in Symbols |-> newSymbolState]

IdleBook ==
  /\ bk = [cfg |-> 1, cashKrw |-> Zero, ticked |-> TRUE, cashAtTick |-> Undef,
           submitted |-> Zero]
  /\ sy = [s \in Symbols |-> newSymbolState]

\* setInterval fires tick(): every symbol's processSymbol runs to its first await
BookTick ==
  /\ ~bk.ticked
  /\ bk' = [bk EXCEPT !.ticked = TRUE, !.cashAtTick = bk.cashKrw]
  /\ sy' = [s \in Symbols |->
              IF sy[s].cooldown THEN [sy[s] EXCEPT !.pc = "done"]
              ELSE [sy[s] EXCEPT !.pc = "fetching"]]
  /\ UNCHANGED <<plannerVars, guardVars, simVars, pnlVars, manageVars, rerunVars,
                 bootVars, detectVars, riskVars, machineVars, socketVars, botVars,
                 deskVars, lifeVars>>

\* fetchLatestData() answers in processSymbol(s): a flat symbol with a new
\* candle and a signal starts analyzeAndTrade()
BookFetchReturns(s, hasSignal) ==
  /\ sy[s].pc = "fetching"
  /\ sy' = IF sy[s].position.open \/ sy[s].lastAnalyzed \/ ~hasSignal
           THEN [sy EXCEPT ![s].pc = "done"]
           ELSE [sy EXCEPT ![s].pc = "deciding", ![s].lastAnalyzed = TRUE]
  /\ UNCHANGED <<bk, plannerVars, guardVars, simVars, pnlVars, manageVars, rerunVars,
                 bootVars, detectVars, riskVars, machineVars, socketVars, botVars,
                 deskVars, lifeVars>>

\* fetchLatestData(), agent.analyze() and logDecision() of analyzeAndTrade(s)
\* have answered: a decision to trade asks for the accounts
BookAgentReturns(s, decision) ==
  /\ sy[s].pc = "deciding"
  /\ sy' = IF ~decision.shouldTrade \/ decision.side = "none"
           THEN [sy EXCEPT ![s].pc = "done"]
           ELSE [sy EXCEPT ![s].pc = "accounts"]
  /\ UNCHANGED <<bk, plannerVars, guardVars, simVars, pnlVars, manageVars, rerunVars,
                 bootVars, detectVars, riskVars, machineVars, socketVars, botVars,
                 deskVars, lifeVars>>

\* getAccounts() answers for symbol s: the portfolio is built, the order is
\* planned and an accepted plan is sent with createOrder()
BookAccountsReturn(s) ==
  /\ sy[s].pc = "accounts"
  /\ LET orderPlan == planOrder(BookConfigs[bk.cfg].policy, BotDecision, Int2Num(BasePrice),
                                bookPortfolioState(bk, sy, s), getRiskScaleForSymbol,
                                getVolatilityBasedSlTp(Int2Num(30)))
     IN  IF ~orderPlan.shouldExecute \/ orderPlan.side = "none"
            \/ ~Truthy(orderPlan.quantity)
         THEN /\ sy' = [sy EXCEPT ![s].pc = "done"]
              /\ bk' = bk
         ELSE /\ sy' = [sy EXCEPT ![s].pc = "entering", ![s].plan = orderPlan]
              /\ bk' = [bk EXCEPT !.submitted =
                                    NAdd(@, orderPrice(orderPlan, Int2Num(BasePrice)))]
  /\ UNCHANGED <<plannerVars, guardVars, simVars, pnlVars, manageVars, rerunVars,
                 bootVars, detectVars, riskVars, machineVars, socketVars, botVars,
                 deskVars, lifeVars>>

\* createOrder() answers for symbol s: a filled order sets the position, a
\* refused one is caught and logged
BookOrderReturns(s, ok) ==
  /\ sy[s].pc = "entering"
  /\ LET cost == orderPrice(sy[s].plan, Int2Num(BasePrice))
     IN  /\ ok => NGe(bk.cashKrw, cost)
         /\ IF ok
            THEN /\ sy' = [sy EXCEPT
                             ![s].position =
                               [NoLivePosition EXCEPT
                                  !.open = TRUE, !.side = sy[s].plan.side,
                                  !.entryPrice = OrElse(sy[s].plan.entryPrice,
                                                        Int2Num(BasePrice)),
                                  !.quantity = sy[s].plan.quantity],
                             ![s].pc = "entryLog"]
                 /\ bk' = [bk EXCEPT !.cashKrw = NSub(@, cost)]
            ELSE /\ sy' = [sy EXCEPT ![s].pc = "done"]
                 /\ bk' = bk
  /\ UNCHANGED <<plannerVars, guardVars, simVars, pnlVars, manageVars, rerunVars,
                 bootVars, detectVars, riskVars, machineVars, socketVars, botVars,
                 deskVars, lifeVars>>

\* logTrade() answers for symbol s: enterCooldown(state)
BookLogReturns(s, ok) ==
  /\ sy[s].pc = "entryLog"
  /\ sy' = [sy EXCEPT ![s].pc = "done", ![s].cooldown = ok]
  /\ UNCHANGED <<bk, plannerVars, guardVars, simVars, pnlVars, manageVars, rerunVars,
                 bootVars, detectVars, riskVars, machineVars, socketVars, botVars,
                 deskVars, lifeVars>>

NextBook ==
  \/ BookTick
  \/ \E s \in Symbols, hasSignal \in BOOLEAN : BookFetchReturns(s, hasSignal)
  \/ \E s \in Symbols, decision \in {BotDecision, NoTradeDecision} :
       BookAgentReturns(s, decision)
  \/ \E s \in Symbols : BookAccountsReturn(s)
  \/ \E s \in Symbols, ok \in BOOLEAN : BookOrderReturns(s, ok)
  \/ \E s \in Symbols, ok \in BOOLEAN : BookLogReturns(s, ok)

----------------------------------------------------------------------------
(* Specifications                                                          *)

\* each specification starts one component and leaves the others as
\* constructed
StartPlanner == InitPlanner /\ IdleGuard /\ IdleSim /\ IdlePnl /\ IdleManage /\ IdleRerun /\ IdleBoot /\ IdleDetect /\ IdleRisk /\ IdleMachine /\ IdleSocket /\ IdleBot /\ IdleDesk /\ IdleLife /\ IdleBook
StartGuard == IdlePlanner /\ InitGuard /\ IdleSim /\ IdlePnl /\ IdleManage /\ IdleRerun /\ IdleBoot /\ IdleDetect /\ IdleRisk /\ IdleMachine /\ IdleSocket /\ IdleBot /\ IdleDesk /\ IdleLife /\ IdleBook
StartSim == IdlePlanner /\ IdleGuard /\ InitSim /\ IdlePnl /\ IdleManage /\ IdleRerun /\ IdleBoot /\ IdleDetect /\ IdleRisk /\ IdleMachine /\ IdleSocket /\ IdleBot /\ IdleDesk /\ IdleLife /\ IdleBook
StartPnl == IdlePlanner /\ IdleGuard /\ IdleSim /\ InitPnl /\ IdleManage /\ IdleRerun /\ IdleBoot /\ IdleDetect /\ IdleRisk /\ IdleMachine /\ IdleSocket /\ IdleBot /\ IdleDesk /\ IdleLife /\ IdleBook

SpecPlanner == StartPlanner /\ [][PlanOrder]_vars

SpecGuard == StartGuard /\ [][NextGuard]_vars

SpecSim == StartSim /\ [][NextSim]_vars

SpecPnl == StartPnl /\ [][NextPnl]_vars

StartManage == IdlePlanner /\ IdleGuard /\ IdleSim /\ IdlePnl /\ InitManage /\ IdleRerun /\ IdleBoot /\ IdleDetect /\ IdleRisk /\ IdleMachine /\ IdleSocket /\ IdleBot /\ IdleDesk /\ IdleLife /\ IdleBook

SpecManage == StartManage /\ [][NextManage]_vars

StartRerun == IdlePlanner /\ IdleGuard /\ InitSim /\ IdlePnl /\ IdleManage /\ IdleRerun /\ IdleBoot /\ IdleDetect /\ IdleRisk /\ IdleMachine /\ IdleSocket /\ IdleBot /\ IdleDesk /\ IdleLife /\ IdleBook

SpecRerun == StartRerun /\ [][NextRerun]_vars

StartBoot == IdlePlanner /\ IdleGuard /\ IdleSim /\ IdlePnl /\ IdleManage /\ IdleRerun /\ InitBoot /\ IdleDetect /\ IdleRisk /\ IdleMachine /\ IdleSocket /\ IdleBot /\ IdleDesk /\ IdleLife /\ IdleBook

SpecBoot == StartBoot /\ [][NextBoot]_vars

StartDetect ==
  IdlePlanner /\ IdleGuard /\ IdleSim /\ IdlePnl /\ IdleManage /\ IdleRerun /\ IdleBoot /\ InitDetect /\ IdleRisk /\ IdleMachine /\ IdleSocket /\ IdleBot /\ IdleDesk /\ IdleLife /\ IdleBook

SpecDetect == StartDetect /\ [][DetectAt]_vars

StartScenario == InitScenario /\ IdleGuard /\ IdleSim /\ IdlePnl /\ IdleManage /\ IdleRerun /\ IdleBoot /\ IdleDetect /\ IdleRisk /\ IdleMachine /\ IdleSocket /\ IdleBot /\ IdleDesk /\ IdleLife /\ IdleBook

SpecScenario == StartScenario /\ [][PlanOrder]_vars

StartFloor == InitFloor /\ IdleGuard /\ IdleSim /\ IdlePnl /\ IdleManage /\ IdleRerun /\ IdleBoot /\ IdleDetect /\ IdleRisk /\ IdleMachine /\ IdleSocket /\ IdleBot /\ IdleDesk /\ IdleLife /\ IdleBook

SpecFloor == StartFloor /\ [][PlanOrder]_vars

StartTight == IdlePlanner /\ IdleGuard /\ InitTight /\ IdlePnl /\ IdleManage /\ IdleRerun /\ IdleBoot /\ IdleDetect /\ IdleRisk /\ IdleMachine /\ IdleSocket /\ IdleBot /\ IdleDesk /\ IdleLife /\ IdleBook

SpecTight == StartTight /\ [][NextSim]_vars

StartDesk == IdlePlanner /\ InitGuard /\ IdleSim /\ IdlePnl /\ IdleManage /\ IdleRerun /\ IdleBoot /\ IdleDetect /\ IdleRisk /\ IdleMachine /\ IdleSocket /\ IdleBot /\ InitDesk /\ IdleLife /\ IdleBook

SpecDesk == StartDesk /\ [][NextDesk]_vars

StartLife == IdlePlanner /\ IdleGuard /\ IdleSim /\ IdlePnl /\ IdleManage /\ IdleRerun /\ IdleBoot /\ IdleDetect /\ IdleRisk /\ IdleMachine /\ IdleSocket /\ IdleBot /\ IdleDesk /\ InitLife /\ IdleBook

SpecLife == StartLife /\ [][NextLife]_vars

StartBook == IdlePlanner /\ IdleGuard /\ IdleSim /\ IdlePnl /\ IdleManage /\ IdleRerun /\ IdleBoot /\ IdleDetect /\ IdleRisk /\ IdleMachine /\ IdleSocket /\ IdleBot /\ IdleDesk /\ IdleLife /\ InitBook

SpecBook == StartBook /\ [][NextBook]_vars

StartTrend ==
  IdlePlanner /\ IdleGuard /\ IdleSim /\ IdlePnl /\ IdleManage /\ IdleRerun /\ IdleBoot /\ InitTrend /\ IdleRisk /\ IdleMachine /\ IdleSocket /\ IdleBot /\ IdleDesk /\ IdleLife /\ IdleBook

SpecTrend == StartTrend /\ [][DetectAt]_vars

StartRisk == IdlePlanner /\ IdleGuard /\ IdleSim /\ IdlePnl /\ IdleManage /\ IdleRerun /\ IdleBoot /\ IdleDetect /\ InitRisk /\ IdleMachine /\ IdleSocket /\ IdleBot /\ IdleDesk /\ IdleLife /\ IdleBook

SpecRisk == StartRisk /\ [][NextRisk]_vars

StartMachine == IdlePlanner /\ IdleGuard /\ IdleSim /\ IdlePnl /\ IdleManage /\ IdleRerun /\ IdleBoot /\ IdleDetect /\ IdleRisk /\ InitMachine /\ IdleSocket /\ IdleBot /\ IdleDesk /\ IdleLife /\ IdleBook

SpecMachine == StartMachine /\ [][NextMachine]_vars

StartSocket == IdlePlanner /\ IdleGuard /\ IdleSim /\ IdlePnl /\ IdleManage /\ IdleRerun /\ IdleBoot /\ IdleDetect /\ IdleRisk /\ IdleMachine /\ InitSocket /\ IdleBot /\ IdleDesk /\ IdleLife /\ IdleBook

SpecSocket == StartSocket /\ [][NextSocket]_vars

SpecSocketFair == SpecSocket /\ FairSocket

StartBot == IdlePlanner /\ IdleGuard /\ IdleSim /\ IdlePnl /\ IdleManage /\ IdleRerun /\ IdleBoot /\ IdleDetect /\ IdleRisk /\ IdleMachine /\ IdleSocket /\ InitBot /\ IdleDesk /\ IdleLife /\ IdleBook

SpecBot == StartBot /\ [][NextBot]_vars

----------------------------------------------------------------------------
(* Properties of planOrder                                                 *)

Accepted == pPc = "done" /\ plan.shouldExecute

\* the capacity limits of the claim, computed from the call's arguments
HeadroomSymbol ==
  NMax(Zero, NSub(NMul(pIn.risk.maxPositionPctPerSymbol, pIn.portfolio.totalEquityKrw),
                  IF pIn.portfolio.posQty.k = "undef" THEN Zero
                  ELSE NMul(pIn.portfolio.posQty, pIn.price)))

HeadroomTotal ==
  NMax(Zero, NSub(NMul(pIn.risk.maxTotalExposurePct, pIn.portfolio.totalEquityKrw),
                  NSub(pIn.portfolio.totalEquityKrw, pIn.portfolio.cashKrw)))

\* C1: every accepted plan has notionalKrw <= min(remaining per-symbol
\* headroom, remaining total headroom, maxNotionalKrw, cashKrw)
C1_NotionalWithinCaps ==
  Accepted =>
    /\ NLe(plan.notionalKrw, HeadroomSymbol)
    /\ NLe(plan.notionalKrw, HeadroomTotal)
    /\ NLe(plan.notionalKrw, pIn.risk.maxNotionalKrw)
    /\ NLe(plan.notionalKrw, pIn.portfolio.cashKrw)

\* an accepted plan whose notional was cut down to the remaining total
\* headroom, the other three limits being larger
C1_Witness ==
  /\ Accepted
  /\ NEq(plan.notionalKrw, HeadroomTotal)
  /\ NLt(plan.notionalKrw, HeadroomSymbol)
  /\ NLt(plan.notionalKrw, pIn.risk.maxNotionalKrw)
  /\ NLt(plan.notionalKrw, pIn.portfolio.cashKrw)

\* C2 (as claimed): every accepted LONG plan has stopLoss < entryPrice < targetPrice
C2_LongStopBelowEntryBelowTarget ==
  (Accepted /\ plan.side = "LONG") =>
    (NLt(plan.stopLoss, plan.entryPrice) /\ NLt(plan.entryPrice, plan.targetPrice))

\* C10 (as claimed): no plan is accepted once realizedPnlTodayPct <= -maxDailyLossPct
C10_DailyLossStopsTrading ==
  (pPc = "done" /\ NLe(pIn.portfolio.realizedPnlTodayPct, NNeg(pIn.risk.maxDailyLossPct)))
    => ~plan.shouldExecute

----------------------------------------------------------------------------
(* Properties of BacktestSimulator                                         *)

\* C7: from one bar to the next of an open position the stop never
\* decreases, and a stop at or above the entry price stays there
C7_StopNeverLoosens ==
  [][(sim.position.open /\ sim'.position.open) =>
       /\ sim'.position.entryIndex = sim.position.entryIndex
       /\ NGe(sim'.position.stopLoss, sim.position.stopLoss)
       /\ (NGe(sim.position.stopLoss, sim.position.entryPrice)
             => NGe(sim'.position.stopLoss, sim'.position.entryPrice))]_vars

\* a position whose stop was lifted from below to the entry price and that
\* was still open, the stop in place, at a later bar closing under the bar
\* that lifted it
C7_Witness ==
  /\ sim.position.open
  /\ NLt(sim.position.initialStopLoss, sim.position.entryPrice)
  /\ NEq(sim.position.stopLoss, sim.position.entryPrice)
  /\ sI - sim.position.entryIndex >= 3
  /\ Len(sim.equityCurve) >= 2
  /\ NLt(sim.equityCurve[Len(sim.equityCurve)], sim.equityCurve[Len(sim.equityCurve) - 1])

----------------------------------------------------------------------------
(* Properties of the reported profit                                       *)

\* the relative move x of a close: exitPrice = entryPrice * (1 + x)
PnlMove == NSub(NDiv(kIn.exitPrice, kIn.entryPrice), One)

\* the bound of the claim: x*100 - 2*feeRate*100
PnlClaimedBound ==
  NSub(NMul(PnlMove, Int2Num(100)), NMul(NMul(Int2Num(2), kIn.fee), Int2Num(100)))

\* C8 (as claimed): the pnlPercent of calculatePnl and of a BacktestTrade is
\* at most x*100 - 2*feeRate*100
C8_PnlPercentWorseByRoundTripFee ==
  (kPc \in {"calc", "closed"} /\ kIn.side = "LONG") => NLe(kOut.pnlPercent, PnlClaimedBound)

\* C8 (amended): pnl is the gross move of the position less the fee on both
\* legs; pnlPercent is that pnl over the invested amount (calculatePnl) or
\* over the initial capital (BacktestTrade), strictly below the gross move
\* on the same basis; calculatePnl meets the claimed bound exactly when
\* x >= feeRate
C8_PnlNetOfBothFees ==
  (kPc \in {"calc", "closed"} /\ kIn.side = "LONG") =>
    LET gross == NMul(NSub(kIn.exitPrice, kIn.entryPrice), kIn.quantity)
        fees == NMul(kIn.fee, NMul(kIn.quantity, NAdd(kIn.entryPrice, kIn.exitPrice)))
        invested == NMul(NMul(kIn.entryPrice, kIn.quantity), NAdd(One, kIn.fee))
        basis == IF kPc = "calc" THEN invested ELSE kIn.initialCapitalKrw
    IN  /\ NEq(kOut.pnl, NSub(gross, fees))
        /\ NEq(kOut.pnlPercent, NMul(NDiv(kOut.pnl, basis), Int2Num(100)))
        /\ NLt(kOut.pnlPercent, NMul(NDiv(gross, basis), Int2Num(100)))
        /\ (kPc = "calc" =>
              (NLe(kOut.pnlPercent, PnlClaimedBound) <=> NGe(PnlMove, kIn.fee)))

\* a losing long position whose reported pnlPercent is above the claimed
\* bound
C8_Witness ==
  /\ kPc = "calc"
  /\ kIn.side = "LONG"
  /\ NLt(kIn.exitPrice, kIn.entryPrice)
  /\ NLt(kOut.pnl, Zero)
  /\ NGt(kOut.pnlPercent, PnlClaimedBound)

----------------------------------------------------------------------------
(* Properties of GuardrailEngine                                           *)

\* the KST calendar day of a wall-clock time
KstDay(t) == (t + 9 * 3600000) \div 86400000

\* number of STOP_LOSS closes after the last TAKE_PROFIT close of a history
StopLossesSinceTakeProfit(h) ==
  Cardinality({i \in DOMAIN h :
                 /\ h[i] = "STOP_LOSS"
                 /\ \A j \in DOMAIN h : j > i => h[j] # "TAKE_PROFIT"})

\* C3: after maxConsecutiveSL stop-loss closes with no take-profit close and
\* no day boundary since, a check never returns allow
C3_StreakDenies ==
  (gRet \notin {"none", "idle"} /\ StopLossesSinceTakeProfit(closedToday) >= maxConsecutiveSL)
    => gRet # "ALLOW"

\* a check denied for the streak alone, the cooldown window still running
C3_Witness ==
  /\ gRet = "CONSECUTIVE_SL"
  /\ Len(closedToday) = maxConsecutiveSL
  /\ \A i \in DOMAIN closedToday : closedToday[i] = "STOP_LOSS"
  /\ gState.cooldownUntilMs > nowMs

\* the contexts that pass every market-quality test
PassingShapes ==
  {sh \in CtxShapes : sh.candleAge <= 2 * HourMs /\ sh.feeInR = 9 /\ sh.stopPct = 100
                      /\ sh.spreadPct = Present(2) /\ sh.topBookKrw = Present(50)
                      /\ sh.volume24hKrw = Present(100000)}

\* C4 (as claimed): a check made on the day the cooldown was armed, at or
\* after its end, with no close since the arming, the daily caps not hit and
\* a passing context, returns allow
C4_AllowAfterCooldown ==
  [][gRet' \notin {"none", "idle"} => \A sh \in PassingShapes :
       ( /\ Check(sh)
         /\ gArm = "armed"
         /\ KstDay(nowMs) = gState.dayKey
         /\ nowMs - sh.nowLag >= gState.cooldownUntilMs
         /\ gState.dailyRealizedR > -dailyMaxLossR
         /\ gState.dailyRealizedPct > -dailyMaxLossPct
         /\ gState.tradesToday < maxTradesPerDay )
       => gRet' = "ALLOW"]_vars

\* C5: the consecutive-stop-loss counter equals the number of STOP_LOSS
\* closes since the last TAKE_PROFIT close or the day reset, and each close
\* moves it by +1 (STOP_LOSS), to 0 (TAKE_PROFIT) or not at all (SIGNAL, END)
C5_CounterIsStreak ==
  /\ gState.consecutiveSL = StopLossesSinceTakeProfit(closedToday)
  /\ gState.tradesToday = Len(closedToday)

\* a take-profit, a stop-loss and a signal exit: the counter is 1
C5_Witness ==
  /\ closedToday = <<"TAKE_PROFIT", "STOP_LOSS", "SIGNAL">>
  /\ gState.consecutiveSL = 1

\* the state a fresh day starts with
FreshLedger(day) ==
  [dayKey |-> day, dailyRealizedR |-> 0, dailyRealizedPct |-> 0,
   tradesToday |-> 0, consecutiveSL |-> 0, cooldownUntilMs |-> 0]

\* C6: the first call on a new day replaces the state by a fresh one before
\* doing anything else (a close is then counted in the new day only), and a
\* call on the day of the ledger never resets it
C6_ResetOncePerDay ==
  [][ /\ gRet' \notin {"none", "idle"} => \A sh \in CtxShapes : Check(sh) =>
           IF KstDay(nowMs) # gState.dayKey
           THEN gState' = FreshLedger(KstDay(nowMs)) /\ gRet' # "COOLDOWN"
           ELSE /\ gState'.dayKey = gState.dayKey
                /\ gState'.tradesToday = gState.tradesToday
                /\ gState'.dailyRealizedR = gState.dailyRealizedR
                /\ gState'.dailyRealizedPct = gState.dailyRealizedPct
                /\ gState'.consecutiveSL = gState.consecutiveSL
      /\ gRet' = "none" => \A t \in ClosedTrades : OnTradeClosed(t) =>
           IF KstDay(nowMs) # gState.dayKey
           THEN gState' = [FreshLedger(KstDay(nowMs)) EXCEPT
                             !.dailyRealizedR = t.r,
                             !.dailyRealizedPct = t.pnlPct,
                             !.tradesToday = 1,
                             !.consecutiveSL = IF t.exitReason = "STOP_LOSS" THEN 1 ELSE 0]
           ELSE /\ gState'.dayKey = gState.dayKey
                /\ gState'.tradesToday = gState.tradesToday + 1
                /\ gState'.dailyRealizedR = gState.dailyRealizedR + t.r
                /\ gState'.dailyRealizedPct = gState.dailyRealizedPct + t.pnlPct
                /\ gState'.cooldownUntilMs = gState.cooldownUntilMs
      /\ GetState => gState' = FreshLedger(KstDay(nowMs))
    ]_vars

\* a ledger of the second day that holds one stop-loss close, the only trade
\* counted although trades were closed the day before
C6_Witness ==
  /\ gState.dayKey = KstDay(StartMs) + 1
  /\ gState.tradesToday = 1
  /\ gState.consecutiveSL = 1
  /\ gState.dailyRealizedR = -100

\* the conditions of check in the order of the claim, on the ledger lg and
\* the context of shape sh stamped for a call at time now
Failing(lg, sh, now) ==
  LET stamp == now - sh.nowLag
  IN  << <<"COOLDOWN", lg.cooldownUntilMs > stamp>>,
         <<"DAILY_LOSS_R", lg.dailyRealizedR <= -300>>,
         <<"DAILY_LOSS_PCT", lg.dailyRealizedPct <= -150>>,
         <<"MAX_TRADES", lg.tradesToday >= maxTradesPerDay>>,
         <<"STALE_CANDLES", sh.candleAge > 2 * sh.tfMinutes * 60000>>,
         <<"FEE_IN_R", sh.feeInR > 15>>,
         <<"STOP_TOO_TIGHT", sh.stopPct < 50>>,
         <<"SPREAD_TOO_WIDE", sh.spreadPct.has /\ sh.spreadPct.v > 8>>,
         <<"SHALLOW_ORDERBOOK", sh.topBookKrw.has /\ sh.topBookKrw.v < 20>>,
         <<"LOW_24H_VOLUME", sh.volume24hKrw.has /\ sh.volume24hKrw.v < 30000>>,
         <<"CONSECUTIVE_SL", lg.consecutiveSL >= maxConsecutiveSL>> >>

\* r is the verdict the claim prescribes: the earliest failing condition, or
\* allow when none fails
IsFirstFailing(r, f) ==
  IF r = "ALLOW" THEN \A i \in DOMAIN f : ~f[i][2]
  ELSE \E i \in DOMAIN f : /\ f[i][1] = r
                           /\ f[i][2]
                           /\ \A j \in 1..(i - 1) : ~f[j][2]

\* C9: check reports the earliest failing condition of the fixed order,
\* allows only when none fails, and arms the cooldown only when the streak
\* is the condition reported
C9_FirstFailingReason ==
  [][gRet' \notin {"none", "idle"} => \A sh \in CtxShapes : Check(sh) =>
       LET lg == IF KstDay(nowMs) # gState.dayKey THEN FreshLedger(KstDay(nowMs))
                 ELSE gState
       IN  /\ IsFirstFailing(gRet', Failing(lg, sh, nowMs))
           /\ (gRet' # "CONSECUTIVE_SL" => gState'.cooldownUntilMs = lg.cooldownUntilMs)
           /\ (gRet' = "CONSECUTIVE_SL" =>
                 gState'.cooldownUntilMs = nowMs - sh.nowLag + 120 * 60000)]_vars

\* a check that reported the daily R-loss cap while the streak had been
\* reached too, so nothing was armed
C9_Witness ==
  /\ gRet = "DAILY_LOSS_R"
  /\ gState.consecutiveSL >= maxConsecutiveSL
  /\ gState.cooldownUntilMs = 0

----------------------------------------------------------------------------
(* Further properties of planOrder                                         *)

\* a finite number greater than zero
ValidPositive(a) == IsFinite(a) /\ NGt(a, Zero)

\* C11 (as claimed): no accepted plan carries a non-finite or non-positive
\* entryPrice, stopLoss, targetPrice, quantity or notionalKrw
C11_AcceptedPlanHasValidNumbers ==
  Accepted =>
    /\ ValidPositive(plan.entryPrice)
    /\ ValidPositive(plan.stopLoss)
    /\ ValidPositive(plan.targetPrice)
    /\ ValidPositive(plan.quantity)
    /\ ValidPositive(plan.notionalKrw)

----------------------------------------------------------------------------
(* Further properties of BacktestSimulator                                 *)

\* C12: in the trade log every trade has exitIndex >= entryIndex and starts
\* after the bar on which the trade before it was closed; an open position
\* was entered after the last close and on a bar already processed
C12_OnePositionAtATime ==
  /\ \A k \in DOMAIN sim.trades : sim.trades[k].exitIndex >= sim.trades[k].entryIndex
  /\ \A k \in DOMAIN sim.trades :
       k > 1 => sim.trades[k].entryIndex > sim.trades[k - 1].exitIndex
  /\ sim.position.open =>
       /\ sim.position.entryIndex < sI
       /\ sim.trades # <<>> =>
            sim.position.entryIndex > sim.trades[Len(sim.trades)].exitIndex

\* two trades in the log, the second entered on the bar right after the one
\* that closed the first
C12_Witness ==
  /\ Len(sim.trades) >= 2
  /\ sim.trades[2].entryIndex = sim.trades[1].exitIndex + 1

----------------------------------------------------------------------------
(* Further properties of GuardrailEngine                                   *)

\* C13 (as claimed): a check whose context lacks the spread, the top-of-book
\* depth or the 24h volume never returns allow
C13_MissingDataDenies ==
  [][gRet' = "ALLOW" => \A sh \in CtxShapes :
       (Check(sh) /\ (~sh.spreadPct.has \/ ~sh.topBookKrw.has \/ ~sh.volume24hKrw.has))
         => gRet' # "ALLOW"]_vars

(* Live and simulated position management                                  *)

\* the exit reason of the last close, "none" before any close
LastLiveReason ==
  IF mRisk.tradeHistory = <<>> THEN "none"
  ELSE mRisk.tradeHistory[Len(mRisk.tradeHistory)].exitReason

LastSimReason ==
  IF mSim.trades = <<>> THEN "none" ELSE mSim.trades[Len(mSim.trades)].exitReason

\* C14 (as claimed): with the same break-even trigger, the same prices and no
\* exit provider the bot and the simulator hold the position on the same
\* steps, close it on the same step for the same reason and keep the same
\* stopLoss after every step
C14_LiveMatchesBacktest ==
  (mPc = "run" /\ mFair /\ cfgBeTriggerR(mCfg) = liveBeTriggerR) =>
    /\ mBot.position.open = mSim.position.open
    /\ mBot.position.open => mBot.position.stopLoss = mSim.position.stopLoss
    /\ LastLiveReason = LastSimReason

(* Repeated runs                                                           *)

\* a returned result as its holder reads it now: its trades, equityCurve
\* and debugStats are the simulator's objects if the simulator still uses them
Seen(r) ==
  IF r.arrays = sim.arrays
  THEN [r EXCEPT !.trades = sim.trades, !.equityCurve = sim.equityCurve,
                 !.debugStats = sim.debugStats]
  ELSE r

\* a result without the identity of its objects
Values(r) == [r EXCEPT !.arrays = 0]

\* C15: a run on a simulator that has made other runs returns, for the same
\* candles, range, configuration and provider answers, the result the first
\* run on the new simulator returned, and no later run alters a result that
\* was returned earlier
C15_RunsRepeat ==
  /\ Len(rResults) = 3 => Values(rResults[3]) = Values(rResults[1])
  /\ \A k \in DOMAIN rResults : Seen(rResults[k]) = rResults[k]

C15_Witness ==
  /\ Len(rResults) = 3
  /\ rResults[1].totalTrades >= 1
  /\ Values(rResults[2]) # Values(rResults[1])
  /\ rResults[2].totalTrades >= 1

(* The signal gate of runRange                                             *)

\* the number of calls of the decision provider: every call ends in exactly
\* one of the three counters
ProviderCalls(sm) ==
  sm.debugStats.agentSkip + sm.debugStats.plannerReject + sm.debugStats.executed

\* C16 (as claimed): unless gateOnSignal is set to false, a bar without an
\* open position and without a volatility signal does not call the decision
\* provider
C16_GateOnByDefault ==
  [][(/\ sPc = "loop" /\ ~sim.position.open /\ sCfg.gateOnSignal # "false"
      /\ sI' = sI + 1
      /\ sim'.debugStats.noSignal = sim.debugStats.noSignal + 1)
       => ProviderCalls(sim') = ProviderCalls(sim)]_vars

(* bootstrapExpectancyCI                                                   *)

\* C17: fewer than 10 R-multiples give the sentinel without any resampling;
\* 10 or more give p5 <= p50 <= p95 whatever the resampling drew, and
\* safeForLive exactly when p5 > 0
C17_BootstrapOrdered ==
  bPc = "done" =>
    IF Len(bIn) < MinSample
    THEN bOut = Sentinel /\ bExp = <<>>
    ELSE /\ NLe(bOut.p5, bOut.p50) /\ NLe(bOut.p50, bOut.p95)
         /\ bOut.safeForLive = NGt(bOut.p5, Zero)

C17_Witness ==
  /\ bPc = "done" /\ Len(bIn) >= MinSample
  /\ NGt(bExp[1], bExp[2]) /\ NGt(bExp[2], bExp[3])
  /\ NLt(bOut.p5, bOut.p50) /\ NLt(bOut.p50, bOut.p95)
  /\ bOut.safeForLive

(* detectVolatilitySignalAt on the flat series with one jump               *)

\* the signal of the claim: a price surge upwards with the jump candle's
\* timestamp
SurgeUpAtJump ==
  /\ dOut.has /\ dOut.type = "PRICE_SURGE" /\ dOut.direction = "UP"
  /\ dOut.timestamp = dCandles[JumpBar].timestamp

\* C18 (as claimed): with priceSurgePct = 0.015 and positive ATR and volume
\* multipliers the call at the jump candle returns the price surge, and the
\* call at an index below 30 returns null
C18_SurgeAtJump ==
  (dPc = "done" /\ dTh.priceSurgePct = Rat(15, 1000)
     /\ NGt(dTh.atrMultiplier, Zero) /\ NGt(dTh.volumeSpikeMultiplier, Zero)) =>
    /\ dI = JumpBar => SurgeUpAtJump
    /\ dI < MinSignalIndex => ~dOut.has

\* C18 (amended): the same with a volume multiplier of at least 0.5, so that
\* the unchanged volume of the jump candle is not the stronger signal
C18_SurgeAtJumpUnlessVolume ==
  (dPc = "done" /\ dTh.priceSurgePct = Rat(15, 1000)
     /\ NGt(dTh.atrMultiplier, Zero) /\ NGe(dTh.volumeSpikeMultiplier, Rat(1, 2))) =>
    /\ dI = JumpBar => SurgeUpAtJump
    /\ dI < MinSignalIndex => ~dOut.has

C18_Witness ==
  /\ dPc = "done" /\ dI = JumpBar /\ dTh.priceSurgePct = Rat(15, 1000)
  /\ dTh.volumeSpikeMultiplier = Rat(1, 2)
  /\ SurgeUpAtJump
  /\ dOut.strength = Int2Num(2)

----------------------------------------------------------------------------
(* planOrder on the 1,000,000 KRW account                                  *)

\* entry cost with fee less stop proceeds net of fee, per unit, of a plan
PlanPerUnitRisk ==
  NSub(NMul(plan.entryPrice, NAdd(One, Rat(1, 2000))),
       NMul(plan.stopLoss, NSub(One, Rat(1, 2000))))

PlanStopTwoPctBelow == NEq(plan.stopLoss, NMul(plan.entryPrice, Rat(49, 50)))

Min5(a, b, c, d, e) == NMin(NMin(NMin(NMin(a, b), c), d), e)

\* C19 as claimed: with equity 1,000,000, riskPerTradePct 0.01, confidence
\* 100, riskScale 1, a stop 2% below entry and feeRate 0.0005, planOrder
\* computes riskAmountKrw = 10,000 and the accepted notional equals
\* min(10,000 / per-unit fee-inclusive risk * entryPrice,
\* maxPositionPct * equity, maxTotalExposure * equity, maxNotional, cash)
C19_NotionalIsMinOfCaps ==
  Accepted =>
    /\ NEq(plan.riskAmountKrw, Int2Num(10000))
    /\ NEq(plan.notionalKrw,
           Min5(NMul(NDiv(Int2Num(10000), PlanPerUnitRisk), plan.entryPrice),
                NMul(pIn.risk.maxPositionPctPerSymbol, pIn.portfolio.totalEquityKrw),
                NMul(pIn.risk.maxTotalExposurePct, pIn.portfolio.totalEquityKrw),
                pIn.risk.maxNotionalKrw, pIn.portfolio.cashKrw))

\* C19 amended: in the same scenario riskAmountKrw = max(10,000,
\* minNotionalKrw) and the accepted notional equals min(riskAmountKrw /
\* per-unit fee-inclusive risk * entryPrice, remaining per-symbol headroom,
\* remaining total headroom, maxNotional, cash), the headrooms being the
\* limits less the exposure already held
C19_NotionalIsMinOfHeadrooms ==
  Accepted =>
    /\ PlanStopTwoPctBelow
    /\ NEq(plan.riskAmountKrw, NMax(Int2Num(10000), pIn.risk.minNotionalKrw))
    /\ NEq(plan.notionalKrw,
           Min5(NMul(NDiv(plan.riskAmountKrw, PlanPerUnitRisk), plan.entryPrice),
                HeadroomSymbol, HeadroomTotal,
                pIn.risk.maxNotionalKrw, pIn.portfolio.cashKrw))

\* an accepted plan that risks 10,000 and whose notional is the remaining
\* total headroom, below maxTotalExposure * equity and below the cash
C19_Witness ==
  /\ Accepted
  /\ NEq(plan.riskAmountKrw, Int2Num(10000))
  /\ NEq(plan.notionalKrw, HeadroomTotal)
  /\ NLt(plan.notionalKrw, pIn.portfolio.cashKrw)
  /\ NLt(plan.notionalKrw, NMul(NDiv(Int2Num(10000), PlanPerUnitRisk), plan.entryPrice))

----------------------------------------------------------------------------
(* The frame of GuardrailEngine.check                                      *)

\* C20 as claimed: a check that does not cross a day boundary leaves every
\* field of the guardrail state unchanged, whether it allows or denies
C20_CheckLeavesState ==
  [][gRet' \notin {"none", "idle"} => \A sh \in CtxShapes :
       (Check(sh) /\ KstDay(nowMs) = gState.dayKey) => gState' = gState]_vars

\* C20 amended: a check that does not cross a day boundary leaves dayKey,
\* dailyRealizedR, dailyRealizedPct, tradesToday and consecutiveSL unchanged;
\* it leaves cooldownUntilMs unchanged too unless it denies for the streak of
\* stop-losses, and then sets it to ctx.nowMs + cooldownMinutes minutes
C20_CheckOnlyArmsCooldown ==
  [][gRet' \notin {"none", "idle"} => \A sh \in CtxShapes :
       (Check(sh) /\ KstDay(nowMs) = gState.dayKey) =>
         /\ gState'.dayKey = gState.dayKey
         /\ gState'.dailyRealizedR = gState.dailyRealizedR
         /\ gState'.dailyRealizedPct = gState.dailyRealizedPct
         /\ gState'.tradesToday = gState.tradesToday
         /\ gState'.consecutiveSL = gState.consecutiveSL
         /\ gState'.cooldownUntilMs =
              IF gRet' = "CONSECUTIVE_SL"
              THEN nowMs - sh.nowLag + cooldownMinutes * MinuteMs
              ELSE gState.cooldownUntilMs]_vars

\* a check denied for the streak on the day of the closes: the ledger still
\* counts every close of the day and the cooldown is armed
C20_Witness ==
  /\ gRet = "CONSECUTIVE_SL"
  /\ gState.dayKey = KstDay(nowMs)
  /\ gState.tradesToday = Len(closedToday)
  /\ gState.tradesToday > 0
  /\ gState.dailyRealizedR < 0
  /\ gState.consecutiveSL >= maxConsecutiveSL
  /\ gState.cooldownUntilMs > 0

----------------------------------------------------------------------------
(* The exits of runRange                                                   *)

LastTrade(sm) == sm.trades[Len(sm.trades)]

\* the bar processed by a step closed the position that was open before it
ClosedAs(reason, exitPrice) ==
  /\ ~sim'.position.open
  /\ Len(sim'.trades) = Len(sim.trades) + 1
  /\ LastTrade(sim').exitReason = reason
  /\ NEq(LastTrade(sim').exitPrice, exitPrice)
  /\ LastTrade(sim').exitIndex = sI
  /\ LastTrade(sim').entryIndex = sim.position.entryIndex

\* C21: on a bar with an open position, a close at or below the stop closes
\* with STOP_LOSS at the stop; otherwise a close at or above the target closes
\* with TAKE_PROFIT at the target; the exit provider is called only when
\* neither fired and only its exit closes the position then; at most one
\* trade is logged per bar, and the bar neither calls the decision provider
\* nor opens a position
C21_ExitPriority ==
  [][(sPc = "loop" /\ sim.position.open /\ sI' = sI + 1) =>
       LET price == sLastClose'
           stopHit == NLe(price, sim.position.stopLoss)
           targetHit == NGe(price, sim.position.targetPrice)
           asked == sim'.exitCalls # sim.exitCalls
       IN  /\ stopHit => ClosedAs("STOP_LOSS", sim.position.stopLoss)
           /\ (~stopHit /\ targetHit) => ClosedAs("TAKE_PROFIT", sim.position.targetPrice)
           /\ asked => (~stopHit /\ ~targetHit /\ Len(sim'.exitCalls) = Len(sim.exitCalls) + 1)
           /\ (~stopHit /\ ~targetHit) =>
                IF sim'.position.open
                THEN sim'.trades = sim.trades
                ELSE asked /\ ClosedAs("SIGNAL", price)
           /\ Len(sim'.trades) <= Len(sim.trades) + 1
           /\ ProviderCalls(sim') = ProviderCalls(sim)
           /\ sim'.position.open => sim'.position.entryIndex = sim.position.entryIndex]_vars

\* a position closed at its target, below the close of the bar, after the
\* exit provider had been asked on an earlier bar and had declined
C21_Witness ==
  /\ sPc = "loop"
  /\ ~sim.position.open
  /\ sim.trades # <<>>
  /\ LastTrade(sim).exitReason = "TAKE_PROFIT"
  /\ LastTrade(sim).exitIndex = sI - 1
  /\ NLt(LastTrade(sim).exitPrice, sLastClose)
  /\ sim.exitCalls # <<>>

\* signalExitMinHoldBars ?? 2, as a number of bars
MinHoldOf(cfg) ==
  IF cfg.signalExitMinHoldBars.k = "undef" THEN Int2Num(2) ELSE cfg.signalExitMinHoldBars

\* C22: every call of the exit provider is made on a position held at least
\* signalExitMinHoldBars bars (2 when unset) and, unless signalExitAfterBeOnly
\* is false, with its stop at or above its entry price; every SIGNAL trade
\* was closed on a bar of such a call
C22_SignalExitGated ==
  /\ \A k \in DOMAIN sim.exitCalls :
       LET c == sim.exitCalls[k]
       IN  /\ NGe(Int2Num(c.index - c.position.entryIndex), MinHoldOf(sCfg))
           /\ sCfg.signalExitAfterBeOnly # "false" =>
                NGe(c.position.stopLoss, c.position.entryPrice)
  /\ \A k \in DOMAIN sim.trades :
       sim.trades[k].exitReason = "SIGNAL" =>
         /\ NGe(Int2Num(sim.trades[k].exitIndex - sim.trades[k].entryIndex), MinHoldOf(sCfg))
         /\ \E j \in DOMAIN sim.exitCalls :
              /\ sim.exitCalls[j].index = sim.trades[k].exitIndex
              /\ sim.exitCalls[j].position.entryIndex = sim.trades[k].entryIndex

\* a SIGNAL trade under the default settings, closed on the second bar after
\* its entry with the stop lifted to the entry price
C22_Witness ==
  /\ sCfg.signalExitAfterBeOnly = "unset"
  /\ sCfg.signalExitMinHoldBars = Undef
  /\ sim.trades # <<>>
  /\ LastTrade(sim).exitReason = "SIGNAL"
  /\ LastTrade(sim).exitIndex - LastTrade(sim).entryIndex = 2
  /\ \E j \in DOMAIN sim.exitCalls :
       /\ sim.exitCalls[j].index = LastTrade(sim).exitIndex
       /\ NEq(sim.exitCalls[j].position.stopLoss, sim.exitCalls[j].position.entryPrice)
       /\ NLt(sim.exitCalls[j].position.initialStopLoss, sim.exitCalls[j].position.entryPrice)

----------------------------------------------------------------------------
(* The range of runRange and its forced close                              *)

\* C23: runRange returns with no position open; a position open after the
\* last processed bar is closed at that bar's close with END; END is logged
\* at most once, as the last trade, by the return; no bar below index 250 is
\* processed
C23_FlatAtReturn ==
  [][/\ sPc' = "done" => ~sim'.position.open
     /\ (sPc = "loop" /\ sPc' = "done" /\ sim.position.open) =>
          /\ Len(sim'.trades) = Len(sim.trades) + 1
          /\ LastTrade(sim').exitReason = "END"
          /\ NEq(LastTrade(sim').exitPrice, sLastClose)
          /\ LastTrade(sim').exitIndex = sI - 1
          /\ LastTrade(sim').entryIndex = sim.position.entryIndex
     /\ \A k \in DOMAIN sim'.trades :
          /\ sim'.trades[k].entryIndex >= 250
          /\ sim'.trades[k].exitReason = "END" => (k = Len(sim'.trades) /\ sPc' = "done")
     /\ sPc' \in {"loop", "done"} =>
          (sI' >= 250 /\ Len(sim'.equityCurve) <= sI' - 250)
     /\ (sPc = "loop" /\ sI' = sI + 1) =>
          (sI >= 250 /\ Len(sim'.equityCurve) = Len(sim.equityCurve) + 1)]_vars

\* a run that returned with two trades, the first closed inside the range
\* and the second by the forced close
C23_Witness ==
  /\ sPc = "done"
  /\ Len(sim.trades) = 2
  /\ sim.trades[1].exitReason # "END"
  /\ sim.trades[2].exitReason = "END"
  /\ ~sim.position.open

----------------------------------------------------------------------------
(* The ledger of the simulator                                             *)

\* quantity * (exitPrice - entryPrice) - feeRate * quantity * (entryPrice + exitPrice)
NetOfBothFees(quantity, entryPrice, exitPrice, fee) ==
  NSub(NMul(quantity, NSub(exitPrice, entryPrice)),
       NMul(fee, NMul(quantity, NAdd(entryPrice, exitPrice))))

RECURSIVE TotalPnl(_, _)
TotalPnl(ts, k) == IF k = 0 THEN Zero ELSE NAdd(TotalPnl(ts, k - 1), ts[k].pnl)

\* C24: every logged trade has pnl = quantity * (exitPrice - entryPrice) -
\* feeRate * quantity * (entryPrice + exitPrice); a flat simulator has cashKrw =
\* initialCapitalKrw + the sum of the logged pnl, and a simulator holding a
\* position has that amount less the notional and the entry fee of the
\* position, so that a close changes the cash since before the open by the
\* trade's pnl
C24_LedgerConserved ==
  /\ \A k \in DOMAIN sim.trades :
       NEq(sim.trades[k].pnl,
           NetOfBothFees(sim.trades[k].quantity, sim.trades[k].entryPrice,
                         sim.trades[k].exitPrice, Rat(1, 2000)))
  /\ NEq(sim.cashKrw,
         NSub(NAdd(sCfg.initialCapitalKrw, TotalPnl(sim.trades, Len(sim.trades))),
              IF sim.position.open
              THEN NMul(NMul(sim.position.quantity, sim.position.entryPrice),
                        NAdd(One, Rat(1, 2000)))
              ELSE Zero))

\* a flat simulator in the loop with a gain and a loss in its log
C24_Witness ==
  /\ sPc = "loop"
  /\ ~sim.position.open
  /\ \E k \in DOMAIN sim.trades : NGt(sim.trades[k].pnl, Zero)
  /\ \E k \in DOMAIN sim.trades : NLt(sim.trades[k].pnl, Zero)

----------------------------------------------------------------------------
(* The floor of the risk amount                                            *)

\* the figures of a call, computed from its arguments
CallEntry == Coalesce(pIn.decision.entryPrice, pIn.price)

CallRawRisk ==
  NMul(NMul(NMul(pIn.portfolio.totalEquityKrw, pIn.risk.riskPerTradePct),
            NMin(One, NMax(Zero, NDiv(pIn.decision.confidence, Int2Num(100))))),
       pIn.riskScale)

CallMaxAllowed ==
  NMin(NMin(NMin(HeadroomSymbol, HeadroomTotal), pIn.risk.maxNotionalKrw),
       pIn.portfolio.cashKrw)

CallStop ==
  LET ratio == IF pIn.customSlTp.present THEN pIn.customSlTp.sl
               ELSE pIn.risk.fallbackStopLossPct
      given == pIn.decision.stopLoss
  IN  IF pIn.decision.side = "LONG"
      THEN IF NGt(given, Zero) /\ NLt(given, CallEntry) THEN given
           ELSE NMul(CallEntry, NSub(One, ratio))
      ELSE IF NGt(given, CallEntry) THEN given
           ELSE NMul(CallEntry, NAdd(One, ratio))

CallTarget ==
  LET ratio == IF pIn.customSlTp.present THEN pIn.customSlTp.tp
               ELSE NMul(pIn.risk.fallbackStopLossPct, Int2Num(2))
  IN  Coalesce(pIn.decision.targetPrice,
               IF pIn.decision.side = "LONG" THEN NMul(CallEntry, NAdd(One, ratio))
               ELSE NMul(CallEntry, NSub(One, ratio)))

\* what one unit loses at the stop and gains at the target, both fees paid
CallPerUnitRisk ==
  IF pIn.decision.side = "LONG"
  THEN NSub(NMul(CallEntry, Rat(2001, 2000)), NMul(CallStop, Rat(1999, 2000)))
  ELSE NSub(NMul(CallStop, Rat(2001, 2000)), NMul(CallEntry, Rat(1999, 2000)))

CallPerUnitReward ==
  IF pIn.decision.side = "LONG"
  THEN NSub(NMul(CallTarget, Rat(1999, 2000)), NMul(CallEntry, Rat(2001, 2000)))
  ELSE NSub(NMul(CallEntry, Rat(1999, 2000)), NMul(CallTarget, Rat(2001, 2000)))

\* a proposal that trades with positive confidence, whose raw risk amount is
\* below minNotionalKrw while the headroom allows minNotionalKrw
SmallAccountCall ==
  /\ pPc = "done"
  /\ pIn.decision.shouldTrade /\ pIn.decision.side # "none"
  /\ NGt(pIn.decision.confidence, Zero)
  /\ NLt(CallRawRisk, pIn.risk.minNotionalKrw)
  /\ NGe(CallMaxAllowed, pIn.risk.minNotionalKrw)

\* an accepted plan carries the floored risk amount and a notional of at
\* least minNotionalKrw; without that much headroom the call is rejected
FlooredNotRejected ==
  /\ Accepted =>
       /\ NEq(plan.riskAmountKrw, NMax(CallRawRisk, pIn.risk.minNotionalKrw))
       /\ NGe(plan.notionalKrw, pIn.risk.minNotionalKrw)
  /\ (pPc = "done" /\ NLt(CallMaxAllowed, pIn.risk.minNotionalKrw)) => ~plan.shouldExecute

\* C25 as claimed: riskAmountKrw = max(raw risk amount, minNotionalKrw); a
\* proposal whose raw risk amount is below minNotionalKrw is accepted
\* whenever the exposure and cash headroom allow minNotionalKrw, and a plan
\* whose clamped notional is below minNotionalKrw is rejected
C25_FloorAcceptsSmallAccounts ==
  /\ FlooredNotRejected
  /\ SmallAccountCall => plan.shouldExecute

\* C25 amended: the same, the small-account proposal being accepted when in
\* addition its per-unit risk after fees is at most the entry price and its
\* per-unit reward after fees is positive; otherwise it is rejected for the
\* final notional or for the reward
C25_FloorAcceptsSoundSmallAccounts ==
  /\ FlooredNotRejected
  /\ SmallAccountCall =>
       IF NGt(CallPerUnitRisk, CallEntry)
       THEN plan.reason = "Final notional below minimum"
       ELSE IF NLe(CallPerUnitReward, Zero)
       THEN plan.reason = "Reward after fees is non-positive"
       ELSE plan.shouldExecute

\* an accepted plan whose raw risk amount, a tenth of minNotionalKrw, was
\* floored and whose notional is above minNotionalKrw
C25_Witness ==
  /\ SmallAccountCall
  /\ plan.shouldExecute
  /\ NEq(NMul(CallRawRisk, Int2Num(10)), pIn.risk.minNotionalKrw)
  /\ NEq(plan.riskAmountKrw, pIn.risk.minNotionalKrw)
  /\ NGt(plan.notionalKrw, pIn.risk.minNotionalKrw)

----------------------------------------------------------------------------
(* The direction of a volatility signal                                    *)

\* the close of the bar asked for less the close `back` bars earlier
CloseChange(back) == NSub(dCandles[dI].close, dCandles[dI - back].close)

\* C26 (as claimed): the direction of an ATR_SPIKE or VOLUME_SPIKE signal is
\* the sign of the close change over the trailing 14 bars, that of a
\* PRICE_SURGE signal the sign of the one-bar close change
C26_DirectionIsTrendSign ==
  (dPc = "done" /\ dOut.has) =>
    LET change == IF dOut.type = "PRICE_SURGE" THEN CloseChange(1) ELSE CloseChange(13)
    IN  /\ NGt(change, Zero) => dOut.direction = "UP"
        /\ NLt(change, Zero) => dOut.direction = "DOWN"

----------------------------------------------------------------------------
(* The drawdown limit of RiskManager                                       *)

\* peakEquity less the equity implied by the trades recorded today
DrawdownFromPeak ==
  NSub(rmSt.peakEquity, NAdd(rmSt.initialEquity, rmSt.dailyStats.totalPnl))

\* C27 (as claimed): checkPositionRisk answers STOP_LOSS or TAKE_PROFIT when
\* the position's ratio is hit, and otherwise DRAWDOWN_LIMIT whenever the
\* drawdown from the peak equity has reached maxDrawdownRatio * peakEquity,
\* after any sequence of setInitialEquity, updateEquity and recordTrade
C27_DrawdownCloses ==
  rmOut.action # "none" =>
    LET pnlRatio == NDiv(NSub(rmPrice, RiskPosition.entryPrice), RiskPosition.entryPrice)
    IN  IF NLe(pnlRatio, NNeg(limStopLossRatio)) THEN rmOut.reason = "STOP_LOSS"
        ELSE IF NGe(pnlRatio, limTakeProfitRatio) THEN rmOut.reason = "TAKE_PROFIT"
        ELSE (NGt(rmSt.peakEquity, Zero)
                /\ NGe(DrawdownFromPeak, NMul(limMaxDrawdownRatio, rmSt.peakEquity)))
               => (rmOut.action = "CLOSE" /\ rmOut.reason = "DRAWDOWN_LIMIT")

----------------------------------------------------------------------------
(* StateMachine.transition                                                 *)

\* the step is a call transition(to) with (current state, to) listed / not listed
TransitionStep == smOp' = "transition"
Listed == <<smState, smTo'>> \in validTransitions

\* what a call does apart from the history: a rejected call returns false and
\* changes nothing and notifies nobody; an accepted one sets the state and
\* calls every registered listener once, in order, with (new, previous)
TransitionOutcome ==
  IF Listed
  THEN /\ smRet' = "true"
       /\ smState' = smTo'
       /\ Len(smCalls') = Len(smListeners)
       /\ \A k \in 1..Len(smListeners) :
            smCalls'[k] = [listener |-> smListeners[k], state |-> smTo', prev |-> smState]
  ELSE /\ smRet' = "false"
       /\ smState' = smState
       /\ smHistory' = smHistory
       /\ smCalls' = <<>>

----------------------------------------------------------------------------
(* Reconnecting after a close                                              *)

\* the socket is not connected and the client was not told to disconnect
SocketDown == ws.sock \in {"closed", "errored"}

\* the socket is open again with the attempt counter back at 0
SocketRecovered == ws.sock = "open" /\ ws.attempts = 0

\* the attempt limit was hit: 'error' was emitted and the process has exited
SocketGaveUp == ws.errorEmitted /\ ws.exit = "exited"

\* C29 (as claimed): once the socket has closed, the client keeps trying: the
\* socket is eventually open again with the attempt counter at 0, or the
\* attempt limit is hit, 'error' is emitted and the process exits (or the
\* owner calls disconnect()); it never stays down with no attempt pending
C29_KeepsRecovering ==
  SocketDown ~> (SocketRecovered \/ SocketGaveUp \/ ws.sock = "null")

----------------------------------------------------------------------------
(* One entry per symbol in the polling bot                                 *)

\* C30 (as claimed): no entry order is in flight for the symbol while its
\* position is open or while another tick's entry order is in flight,
\* however the ticks overlap and whenever candles arrive
C30_SingleEntryPerSymbol ==
  \A t \in 1..MaxBotTicks :
    tk[t].pc = "entering" =>
      /\ ~bot.position.open
      /\ \A u \in 1..MaxBotTicks \ {t} : tk[u].pc # "entering"

----------------------------------------------------------------------------
(* The length of the state history                                         *)

\* C38 (as claimed): after any sequence of transition and forceState calls
\* the history holds at most HistoryCap entries, and once a state change has
\* been recorded its last entry is the current state
C38_HistoryBounded ==
  /\ Len(smHistory) <= HistoryCap
  /\ smHistory # <<>> => smHistory[Len(smHistory)].state = smState

----------------------------------------------------------------------------
(* The simulator's cash, its executed counter and the sign of its exits    *)

\* C34: cashKrw is never negative during a run, whatever was opened or closed
C34_CashNeverNegative == NGe(sim.cashKrw, Zero)

\* a position is open after an earlier trade was closed, cash having been
\* debited and credited
C34_Witness ==
  /\ sim.position.open
  /\ Len(sim.trades) > 0
  /\ NLt(sim.cashKrw, sCfg.initialCapitalKrw)

\* C35 (as claimed): when runRange returns, debugStats.executed is the number
\* of trades in the log
C35_ExecutedCountsTrades ==
  sPc = "done" => sim.debugStats.executed = Len(sim.trades)

\* C36 (as claimed): a TAKE_PROFIT trade has pnl > 0, and when the fee rate
\* is positive a STOP_LOSS trade has pnl < 0
C36_ExitSignMatchesPnl ==
  \A k \in DOMAIN sim.trades :
    /\ sim.trades[k].exitReason = "TAKE_PROFIT" => NGt(sim.trades[k].pnl, Zero)
    /\ (sim.trades[k].exitReason = "STOP_LOSS" /\ NGt(sCfg.feeRate, Zero))
         => NLt(sim.trades[k].pnl, Zero)

----------------------------------------------------------------------------
(* The daily trade cap with several symbols                                *)

\* C32 (as claimed): on any day the number of trades admitted through the
\* shared engine never exceeds maxTradesPerDay, however the symbols' check
\* and onTradeClosed calls are ordered
C32_AdmissionsWithinCap == dkAdmitted <= maxTradesPerDay

----------------------------------------------------------------------------
(* The loss at the stop against the risk budget                            *)

\* the fee-inclusive loss of the planned notional when it is sold at the stop
PlanLossAtStop ==
  NMul(NDiv(plan.notionalKrw, plan.entryPrice),
       NSub(NMul(plan.entryPrice, NAdd(One, feeRate)),
            NMul(plan.stopLoss, NSub(One, feeRate))))

\* C37: for an accepted plan the fee-inclusive loss at the planned stop is at
\* most riskAmountKrw, and appliedRiskPct is at most riskPerTradePct *
\* riskScale whatever the confidence
C37_LossWithinBudget ==
  (pPc = "done" /\ plan.shouldExecute) =>
     /\ NLe(PlanLossAtStop, plan.riskAmountKrw)
     /\ NLe(plan.appliedRiskPct, NMul(pIn.risk.riskPerTradePct, pIn.riskScale))

C37_Witness ==
  /\ pPc = "done"
  /\ plan.shouldExecute
  /\ plan.side = "LONG"
  /\ NEq(pIn.decision.confidence, Int2Num(150))
  /\ NEq(PlanLossAtStop, plan.riskAmountKrw)
  /\ NEq(plan.appliedRiskPct, NMul(pIn.risk.riskPerTradePct, pIn.riskScale))

----------------------------------------------------------------------------
(* The bot after stop()                                                    *)

\* C33: after stop(), and until start() is called, the state machine stays
\* IDLE, whatever tick is in flight and whatever recovery timer is pending
C33_StaysStopped == life.stopped => life.state = "IDLE"

----------------------------------------------------------------------------
(* Exposure and cash when the symbols of a tick plan concurrently          *)

\* the sum of quantity * entryPrice over the open positions
OpenNotional == positionValueUpTo(sy, MaxSymbols)

\* C31: the notionals of the open positions sum to at most
\* maxTotalExposurePct * total equity, and the notionals of the orders sent in
\* a tick sum to at most the cash available when the tick fired
C31_ExposureAndCashBounded ==
  bk.ticked =>
    /\ NLe(OpenNotional,
           NMul(BookConfigs[bk.cfg].policy.maxTotalExposurePct,
                NAdd(bk.cashKrw, OpenNotional)))
    /\ NLe(bk.submitted, bk.cashAtTick)

====
